---- MODULE Spec2Model ----
(***************************************************************************)
(* A model of the creditors agent (swpt_creditors): the account-ledger     *)
(* reconciliation engine (procedures/account_updates.py), the             *)
(* running-transfer coordinator and the staging of log entries.           *)
(*                                                                         *)
(* One creditor (C_ID) and one debtor (D_ID) are modelled; every handler   *)
(* is one database transaction and therefore one atomic action.           *)
(* Timestamps are natural numbers, dates are natural numbers (DATE0 = 0),  *)
(* 64-bit integers are scaled down to IntBits bits.  An optional (NULL-    *)
(* able) column holds <<>> for NULL and <<v>> for the value v.             *)
(***************************************************************************)
EXTENDS Integers, Sequences, FiniteSets, TLC

\* ------------------------------------------------------------------ bounds
\* Width, in bits, of the integers that stand for the signed 64-bit columns.
IntBits == 3
\* Width, in bits, of the wrapping sequence numbers (32 in the program).
SeqBits == 2
\* The clock runs from 0 to MaxTime.
MaxTime == 1
\* The greatest transfer number the peer uses.
MaxTN == 3
\* The greatest burst_count the scheduler passes.
MaxBurst == 2
\* The greatest number of LedgerEntry rows kept per account.
MaxEntries == 4
\* The greatest number of staged PendingLogEntry rows.
MaxLog == 7
\* The greatest number of outbound signal rows of the transfer coordinator.
MaxSignals == 3
\* The greatest number of LogEntry rows kept per creditor.
MaxLogEntries == 12

\* --------------------------------------------------------------- constants
MAX_INT64 == 2 ^ (IntBits - 1) - 1
MIN_INT64 == 0 - 2 ^ (IntBits - 1)
Int64 == MIN_INT64 .. MAX_INT64
DATE0 == 0
\* EPS = 1e-5, kept as its inverse so that the arithmetic stays integral.
EpsInv == 100000
C_ID == "C_ID"
D_ID == "D_ID"
\* A status code that is not the one of a successful transfer.
SC_NOT_OK == "NOT_OK"
SC_OK == "OK"
\* An error code other than the one of an unexpected error.
SC_SOME_ERROR == "SOME_ERROR"
SC_UNEXPECTED_ERROR == "UNEXPECTED_ERROR"
SC_CANCELED_BY_THE_SENDER == "CANCELED_BY_THE_SENDER"
OTH_ACCOUNT_LEDGER == "AccountLedger"
OTH_ACCOUNT_INFO == "AccountInfo"
OTH_COMMITTED_TRANSFER == "CommittedTransfer"
OTH_TRANSFER == "Transfer"

None == << >>
Some(v) == << v >>
IsNone(o) == o = << >>
Val(o) == o[1]

\* F(e), with e evaluated once.
With(e, F(_)) == CHOOSE y \in {F(x) : x \in {e}} : TRUE

Abs(x) == IF x < 0 THEN 0 - x ELSE x
Min(a, b) == IF a <= b THEN a ELSE b
Times == 0 .. MaxTime

VARIABLES
    now,             \* the wall clock, datetime.now()
    has_account,     \* TRUE iff the account (C_ID, D_ID) and its AccountData row exist
    data,            \* the AccountData row of (C_ID, D_ID)
    facts,           \* the CommittedTransfer rows
    marker,          \* TRUE iff the PendingLedgerUpdate row of the account exists
    ledger_entries,  \* the LedgerEntry rows of the account, in entry_id order
    pending_log,     \* the PendingLogEntry rows, in pending_entry_id order
    signals,         \* the outbound signal rows, in insertion order
    rt,              \* the RunningTransfer row of (C_ID, TEST_UUID), or None
    ret,             \* the last call: its name (op), its result (a string) and
                     \* a record of what it was called with (info)
    loop,            \* the scheduler's retry loop: the last fact of the gapless
                     \* chain that was pending when the loop started, or None
    creditor,        \* the Creditor row of C_ID
    log_entries,     \* the LogEntry rows of C_ID, in insertion order
    txn              \* the open transactions on the Creditor row: what each
                     \* worker has read, or None when it has no transaction

log_vars == << creditor, log_entries, txn >>
vars == << now, has_account, data, facts, marker, ledger_entries, pending_log, signals, rt, ret, loop, creditor, log_entries, txn >>
ledger_vars == << data, facts, marker, ledger_entries >>

\* ------------------------------------------------------- the ledger engine

\* procedures/common.py contain_principal_overflow: the correction amount
\* clamped to the magnitude MAX_INT64, so that neither the amount nor its
\* negation leaves the signed range.
contain_principal_overflow(value) ==
    IF value <= MIN_INT64 THEN 0 - MAX_INT64
    ELSE IF value > MAX_INT64 THEN MAX_INT64
    ELSE value

\* A LedgerEntry row; a correction entry has neither creation_date nor
\* transfer_number.
LedgerEntry(entry_id, acquired_amount, principal, creation_date, transfer_number) ==
    [entry_id |-> entry_id, acquired_amount |-> acquired_amount,
     principal |-> principal, creation_date |-> creation_date,
     transfer_number |-> transfer_number]

\* The while loop of _make_correcting_ledger_entry_if_necessary.
RECURSIVE correcting_loop(_, _, _, _)
correcting_loop(correction_amount, ledger_principal, last_entry_id, entries) ==
    IF correction_amount = 0
    THEN [ledger_last_entry_id |-> last_entry_id, entries |-> entries]
    ELSE LET safe_correction_amount == contain_principal_overflow(correction_amount)
         IN correcting_loop(
                correction_amount - safe_correction_amount,
                ledger_principal + safe_correction_amount,
                last_entry_id + 1,
                Append(entries,
                       LedgerEntry(last_entry_id + 1, safe_correction_amount,
                                   ledger_principal + safe_correction_amount,
                                   None, None)))

\* A variant that records the whole correction as one entry.
_make_one_correcting_ledger_entry(d, entries, acquired_amount, principal) ==
    LET previous_principal == principal - acquired_amount
    IN IF /\ MIN_INT64 <= previous_principal /\ previous_principal <= MAX_INT64
          /\ previous_principal # d.ledger_principal
       THEN [data |-> [d EXCEPT !.ledger_last_entry_id = @ + 1],
             entries |-> Append(entries,
                                LedgerEntry(d.ledger_last_entry_id + 1,
                                            previous_principal - d.ledger_principal,
                                            previous_principal, None, None)),
             made |-> TRUE]
       ELSE [data |-> d, entries |-> entries, made |-> FALSE]

\* A variant that never makes a correction entry.
_make_no_correcting_ledger_entry(d, entries, acquired_amount, principal) ==
    [data |-> d, entries |-> entries, made |-> FALSE]

\* Returns the AccountData row, the LedgerEntry rows and the flag
\* made_correcting_ledger_entry.  Only ledger_last_entry_id changes in the
\* row: the loop works on a local copy of ledger_principal.
_make_correcting_ledger_entry_if_necessary(d, entries, acquired_amount, principal) ==
    LET previous_principal == principal - acquired_amount
    IN IF MIN_INT64 <= previous_principal /\ previous_principal <= MAX_INT64
       THEN LET r == correcting_loop(previous_principal - d.ledger_principal,
                                     d.ledger_principal,
                                     d.ledger_last_entry_id, entries)
            IN [data |-> [d EXCEPT !.ledger_last_entry_id = r.ledger_last_entry_id],
                entries |-> r.entries,
                made |-> previous_principal # d.ledger_principal]
       ELSE [data |-> d, entries |-> entries, made |-> FALSE]

\* Returns the row, the LedgerEntry rows, the PendingLogEntry to add (or None)
\* and whether the assertion of the function held.
_update_ledger(d, entries, transfer_number, acquired_amount, principal, always_insert_ledger_update_log_entry) ==
    With(_make_correcting_ledger_entry_if_necessary(d, entries, acquired_amount,
                                                    principal), LAMBDA c :
    LET d1 == IF acquired_amount # 0
              THEN [c.data EXCEPT !.ledger_last_entry_id = @ + 1]
              ELSE c.data
        e1 == IF acquired_amount # 0
              THEN Append(c.entries,
                          LedgerEntry(d1.ledger_last_entry_id, acquired_amount, principal,
                                      Some(d1.creation_date), Some(transfer_number)))
              ELSE c.entries
        should_insert_ledger_update_log_entry == c.made \/ acquired_amount # 0
        d2 == [d1 EXCEPT !.ledger_principal = principal,
                         !.ledger_last_transfer_number = transfer_number]
        insert == should_insert_ledger_update_log_entry
                  \/ always_insert_ledger_update_log_entry
        d3 == IF insert THEN [d2 EXCEPT !.ledger_latest_update_id = @ + 1] ELSE d2
    IN [data |-> d3,
        entries |-> e1,
        log_entry |-> IF insert
                      THEN Some([object_type_hint |-> OTH_ACCOUNT_LEDGER,
                                 object_update_id |-> d3.ledger_latest_update_id,
                                 data_principal |-> principal,
                                 data_next_entry_id |-> d3.ledger_last_entry_id + 1])
                      ELSE None,
        assert_ok |-> should_insert_ledger_update_log_entry
                      \/ d1.ledger_principal = principal])

\* The rows of a set of CommittedTransfer rows with distinct transfer numbers,
\* ordered by transfer_number.
RECURSIVE order_by_transfer_number(_)
order_by_transfer_number(S) ==
    IF S = {} THEN << >>
    ELSE LET m == CHOOSE f \in S : \A g \in S : f.transfer_number <= g.transfer_number
         IN << m >> \o order_by_transfer_number(S \ {m})

\* A variant of the fetch that misses the transfer right after the ledger's
\* last one.
pending_transfers_after_next(d) ==
    {f \in facts : /\ f.creation_date = d.creation_date
                   /\ f.transfer_number > d.ledger_last_transfer_number + 1}

\* A variant of the fetch that does not look at the ledger's last transfer
\* number.
pending_transfers_of_epoch(d) ==
    {f \in facts : f.creation_date = d.creation_date}

pending_transfers(d) ==
    {f \in facts : /\ f.creation_date = d.creation_date
                   /\ f.transfer_number > d.ledger_last_transfer_number}

_get_sorted_pending_transfers(d, max_count) ==
    LET all == order_by_transfer_number(pending_transfers(d))
    IN SubSeq(all, 1, Min(max_count, Len(all)))

\* A variant of the self-healing that moves the ledger one transfer beyond the
\* peer-reported one.
_fix_missing_last_transfer_beyond(d, entries, max_delay, current_ts) ==
    IF d.last_transfer_committed_at < current_ts - max_delay
    THEN _update_ledger(d, entries, d.last_transfer_number + 1, 0, d.principal, FALSE)
    ELSE [data |-> d, entries |-> entries, log_entry |-> None, assert_ok |-> TRUE]

\* A variant without the self-healing: the ledger only moves by stored facts.
_never_fix_missing_last_transfer(d, entries, max_delay, current_ts) ==
    [data |-> d, entries |-> entries, log_entry |-> None, assert_ok |-> TRUE]

\* A variant of the self-healing that does not wait for the reported transfer
\* to grow old.
_fix_missing_last_transfer_at_once(d, entries, max_delay, current_ts) ==
    IF IsNone(d.ledger_pending_transfer_ts)
       /\ d.last_transfer_number > d.ledger_last_transfer_number
    THEN _update_ledger(d, entries, d.last_transfer_number, 0, d.principal, FALSE)
    ELSE [data |-> d, entries |-> entries, log_entry |-> None, assert_ok |-> TRUE]

_fix_missing_last_transfer_if_necessary(d, entries, max_delay, current_ts) ==
    LET has_no_pending_transfers == IsNone(d.ledger_pending_transfer_ts)
        last_transfer_is_missing ==
            d.last_transfer_number > d.ledger_last_transfer_number
        last_transfer_is_old == d.last_transfer_committed_at < current_ts - max_delay
    IN IF has_no_pending_transfers /\ last_transfer_is_missing /\ last_transfer_is_old
       THEN _update_ledger(d, entries, d.last_transfer_number, 0, d.principal, FALSE)
       ELSE [data |-> d, entries |-> entries, log_entry |-> None, assert_ok |-> TRUE]

\* A variant of `or` that keeps the earlier log entry.
keep_earlier(x, y) == IF IsNone(y) THEN x ELSE y

\* x or y of two optional values.
Or(x, y) == IF IsNone(x) THEN y ELSE x

\* The for loop of process_pending_ledger_update over transfers[i..]: stops
\* (broke) at the first transfer that does not follow the ledger's last one
\* and is not older than the cutoff.
RECURSIVE walk_transfers(_, _, _, _, _, _)
walk_transfers(d, entries, log_entry, transfers, i, committed_at_cutoff) ==
    IF i > Len(transfers)
    THEN [data |-> [d EXCEPT !.ledger_pending_transfer_ts = None],
          entries |-> entries, log_entry |-> log_entry, broke |-> FALSE,
          assert_ok |-> TRUE]
    ELSE LET t == transfers[i]
         IN IF /\ t.previous_transfer_number # d.ledger_last_transfer_number
               /\ t.committed_at >= committed_at_cutoff
            THEN [data |-> [d EXCEPT !.ledger_pending_transfer_ts = Some(t.committed_at)],
                  entries |-> entries, log_entry |-> log_entry, broke |-> TRUE,
                  assert_ok |-> TRUE]
            ELSE With(_update_ledger(d, entries, t.transfer_number,
                                     t.acquired_amount, t.principal, FALSE),
                      LAMBDA u :
                    IF ~u.assert_ok
                    THEN [data |-> d, entries |-> entries, log_entry |-> log_entry,
                          broke |-> FALSE, assert_ok |-> FALSE]
                    ELSE walk_transfers(u.data, u.entries, Or(u.log_entry, log_entry),
                                        transfers, i + 1, committed_at_cutoff))

UpdatedLedgerSignal(d) ==
    [type |-> "UpdatedLedgerSignal", update_id |-> d.ledger_latest_update_id,
     account_id |-> d.account_id, creation_date |-> d.creation_date,
     principal |-> d.ledger_principal,
     last_transfer_number |-> d.ledger_last_transfer_number]

\* ---------------------------------------------------- the snapshot handler

\* Seqnum(x) > Seqnum(y): wrap-around aware, decided by the signed difference.
seqnum_gt(x, y) ==
    LET d == (x - y) % (2 ^ SeqBits)
    IN 0 < d /\ d < 2 ^ (SeqBits - 1)

\* A variant of the comparison that looks at the change timestamp and the
\* sequence number only.
event_le_within_epoch(c1, t1, q1, c2, t2, q2) ==
    IF t1 # t2 THEN t1 < t2
    ELSE IF q1 # q2 THEN ~seqnum_gt(q1, q2)
    ELSE TRUE

\* this_event <= prev_event for (creation_date, last_change_ts, Seqnum):
\* the tuples are compared at their first differing component.
event_le(c1, t1, q1, c2, t2, q2) ==
    IF c1 # c2 THEN c1 < c2
    ELSE IF t1 # t2 THEN t1 < t2
    ELSE IF q1 # q2 THEN ~seqnum_gt(q1, q2)
    ELSE TRUE

\* A variant of the comparison that takes only equal amounts for close.
exactly_equal(a, b, c) == a = b

\* abs(a - b) <= EPS * c, over the integers that stand for the floats.
within_eps(a, b, c) == Abs(a - b) * EpsInv <= c
\* abs(a - b) > EPS * c
beyond_eps(a, b, c) == Abs(a - b) * EpsInv > c

CONFIG_SCHEDULED_FOR_DELETION_FLAG == 1
DEFAULT_CONFIG_FLAGS == 0
DEFAULT_NEGLIGIBLE_AMOUNT == 3
HUGE_NEGLIGIBLE_AMOUNT == 2
has_flag(config_flags, flag) == (config_flags \div flag) % 2 = 1

\* AccountData.is_deletion_safe
is_deletion_safe(d) ==
    /\ ~d.has_server_account
    /\ has_flag(d.config_flags, CONFIG_SCHEDULED_FOR_DELETION_FLAG)
    /\ d.is_config_effectual

\* procedures/accounts.py _insert_info_update_pending_log_entry: bumps the
\* info version of the row; the entry it stages is info_log_entry.
_insert_info_update_pending_log_entry(d) ==
    [d EXCEPT !.info_latest_update_id = @ + 1]

info_log_entry(d) ==
    [object_type_hint |-> OTH_ACCOUNT_INFO,
     object_update_id |-> d.info_latest_update_id]

\* A variant of _discard_orphaned_account that never takes the account for
\* discarded.
discard_again(config_flags, negligible_amount) ==
    << [type |-> "ConfigureAccountSignal", seqnum |-> 0,
        negligible_amount |-> HUGE_NEGLIGIBLE_AMOUNT,
        config_flags |-> DEFAULT_CONFIG_FLAGS + CONFIG_SCHEDULED_FOR_DELETION_FLAG] >>

\* _discard_orphaned_account: the signals it adds.
_discard_orphaned_account(config_flags, negligible_amount) ==
    LET is_already_discarded ==
            /\ has_flag(config_flags, CONFIG_SCHEDULED_FOR_DELETION_FLAG)
            /\ negligible_amount * EpsInv >= (EpsInv - 1) * HUGE_NEGLIGIBLE_AMOUNT
    IN IF is_already_discarded THEN << >>
       ELSE << [type |-> "ConfigureAccountSignal", seqnum |-> 0,
                negligible_amount |-> HUGE_NEGLIGIBLE_AMOUNT,
                config_flags |-> DEFAULT_CONFIG_FLAGS + CONFIG_SCHEDULED_FOR_DELETION_FLAG] >>

\* A variant of ensure_pending_ledger_update that inserts nothing.
no_pending_ledger_update == FALSE

\* procedures/transfers.py ensure_pending_ledger_update: inserts the marker
\* unless it exists; the value is whether the marker exists afterwards.
ensure_pending_ledger_update == TRUE

Ret(op, result, info) == [op |-> op, result |-> result, info |-> info]

\* The row as process_account_update_signal leaves it for a newer event s,
\* before the ledger is looked at (lines 138-181).
apply_snapshot(d, s) ==
    LET is_config_effectual ==
            /\ s.last_config_ts = d.last_config_ts
            /\ s.last_config_seqnum = d.last_config_seqnum
            /\ s.config_flags = d.config_flags
            /\ s.config_data = d.config_data
            /\ within_eps(d.negligible_amount, s.negligible_amount, s.negligible_amount)
        config_error == IF is_config_effectual THEN None ELSE d.config_error
        is_info_updated ==
            \/ is_deletion_safe(d)
            \/ d.account_id # s.account_id
            \/ beyond_eps(d.interest_rate, s.interest_rate, s.interest_rate)
            \/ d.last_interest_rate_change_ts # s.last_interest_rate_change_ts
            \/ d.transfer_note_max_bytes # s.transfer_note_max_bytes
            \/ d.debtor_info_iri # s.debtor_info_iri
            \/ d.debtor_info_content_type # s.debtor_info_content_type
            \/ d.debtor_info_sha256 # s.debtor_info_sha256
            \/ d.config_error # config_error
        d1 == [d EXCEPT !.has_server_account = TRUE,
                        !.creation_date = s.creation_date,
                        !.last_change_ts = s.last_change_ts,
                        !.last_change_seqnum = s.last_change_seqnum,
                        !.principal = s.principal,
                        !.interest = s.interest,
                        !.interest_rate = s.interest_rate,
                        !.last_interest_rate_change_ts = s.last_interest_rate_change_ts,
                        !.transfer_note_max_bytes = s.transfer_note_max_bytes,
                        !.account_id = s.account_id,
                        !.debtor_info_iri = s.debtor_info_iri,
                        !.debtor_info_content_type = s.debtor_info_content_type,
                        !.debtor_info_sha256 = s.debtor_info_sha256,
                        !.last_transfer_number = s.last_transfer_number,
                        !.last_transfer_committed_at = s.last_transfer_committed_at,
                        !.is_config_effectual = is_config_effectual,
                        !.config_error = config_error]
    IN [data |-> IF is_info_updated
                 THEN _insert_info_update_pending_log_entry(d1) ELSE d1,
        is_info_updated |-> is_info_updated]

\* A variant of the handler that never records a heartbeat.
no_heartbeat(d, ts, current_ts) == d

\* The row after the heartbeat of a signal sent at ts is recorded.
heartbeat(d, ts, current_ts) ==
    IF ts > d.last_heartbeat_ts
    THEN [d EXCEPT !.last_heartbeat_ts = Min(ts, current_ts)]
    ELSE d

\* process_account_update_signal(**s, ttl): one transaction.
process_account_update_signal(s, ttl) ==
    LET current_ts == now
        hb == heartbeat(data, s.ts, current_ts)
        call == [ts |-> s.ts, ttl |-> ttl, creation_date |-> s.creation_date,
                 last_change_ts |-> s.last_change_ts,
                 last_change_seqnum |-> s.last_change_seqnum,
                 config_flags |-> s.config_flags,
                 negligible_amount |-> s.negligible_amount,
                 last_config_ts |-> s.last_config_ts,
                 last_config_seqnum |-> s.last_config_seqnum,
                 config_data |-> s.config_data]
        orphan_signals == _discard_orphaned_account(s.config_flags,
                                                    s.negligible_amount)
        is_new_server_account == s.creation_date > data.creation_date
        is_account_id_changed == s.account_id # data.account_id
        a == apply_snapshot(hb, s)
        info_log == IF a.is_info_updated THEN << info_log_entry(a.data) >> ELSE << >>
        d2 == IF is_new_server_account
              THEN [a.data EXCEPT !.ledger_pending_transfer_ts = None]
              ELSE a.data
        u == IF is_new_server_account
             THEN _update_ledger(d2, ledger_entries, 0, 0, 0, TRUE)
             ELSE _update_ledger(d2, ledger_entries, d2.ledger_last_transfer_number,
                                 0, d2.ledger_principal, TRUE)
    IN
    IF current_ts - s.ts > ttl
    THEN /\ ret' = Ret("process_account_update_signal", "expired", call)
         /\ UNCHANGED << log_vars, now, has_account, data, facts, marker, ledger_entries, pending_log,
                         signals, rt, loop >>
    ELSE IF ~has_account
    THEN /\ Len(signals) + Len(orphan_signals) <= MaxSignals
         /\ signals' = signals \o orphan_signals
         /\ ret' = Ret("process_account_update_signal", "orphaned", call)
         /\ UNCHANGED << log_vars, now, has_account, data, facts, marker, ledger_entries, pending_log,
                         rt, loop >>
    ELSE IF event_le(s.creation_date, s.last_change_ts, s.last_change_seqnum,
                     data.creation_date, data.last_change_ts, data.last_change_seqnum)
    THEN /\ data' = hb
         /\ ret' = Ret("process_account_update_signal", "stale", call)
         /\ UNCHANGED << log_vars, now, has_account, facts, marker, ledger_entries, pending_log,
                         signals, rt, loop >>
    ELSE IF ~(s.creation_date >= data.creation_date)
    THEN \* the assertion fails: the transaction is rolled back
         /\ ret' = Ret("process_account_update_signal", "AssertionError", call)
         /\ UNCHANGED << log_vars, now, has_account, data, facts, marker, ledger_entries, pending_log,
                         signals, rt, loop >>
    ELSE IF is_new_server_account \/ is_account_id_changed
    THEN IF ~u.assert_ok
         THEN /\ ret' = Ret("process_account_update_signal", "AssertionError", call)
              /\ UNCHANGED << log_vars, now, has_account, data, facts, marker, ledger_entries, pending_log,
                              signals, rt, loop >>
         ELSE /\ Len(u.entries) <= MaxEntries
              /\ Len(pending_log) + Len(info_log) < MaxLog
              /\ data' = u.data
              /\ ledger_entries' = u.entries
              /\ signals' = Append(signals, UpdatedLedgerSignal(u.data))
              /\ pending_log' = pending_log \o info_log \o << Val(u.log_entry) >>
              /\ marker' = ensure_pending_ledger_update
              /\ loop' = None
              /\ ret' = Ret("process_account_update_signal", "applied", call)
              /\ UNCHANGED << log_vars, now, has_account, facts, rt >>
    ELSE /\ Len(pending_log) + Len(info_log) <= MaxLog
         /\ data' = a.data
         /\ pending_log' = pending_log \o info_log
         /\ loop' = None
         /\ ret' = Ret("process_account_update_signal", "applied", call)
         /\ UNCHANGED << log_vars, now, has_account, facts, marker, ledger_entries, signals, rt >>

\* A variant of the purge filter that ignores the creation date.
any_creation_date(d, creation_date) == d.has_server_account

\* The filter of process_account_purge_signal on the row d:
\* has_server_account=True and creation_date <= the purge's creation_date.
is_purged_by(d, creation_date) ==
    /\ d.has_server_account
    /\ d.creation_date <= creation_date

\* process_account_purge_signal(debtor_id, creditor_id, creation_date): one
\* transaction.
process_account_purge_signal(debtor_id, creditor_id, creation_date) ==
    LET call == [debtor_id |-> debtor_id, creditor_id |-> creditor_id,
                 creation_date |-> creation_date]
        found == /\ has_account
                 /\ debtor_id = D_ID
                 /\ creditor_id = C_ID
                 /\ is_purged_by(data, creation_date)
        d1 == _insert_info_update_pending_log_entry(
                  [data EXCEPT !.has_server_account = FALSE,
                               !.principal = 0,
                               !.interest = 0])
    IN IF found
       THEN /\ Len(pending_log) < MaxLog
            /\ data' = d1
            /\ pending_log' = Append(pending_log, info_log_entry(d1))
            /\ ret' = Ret("process_account_purge_signal", "purged", call)
            /\ UNCHANGED << log_vars, now, has_account, facts, marker,
                            ledger_entries, signals, rt, loop >>
       ELSE /\ ret' = Ret("process_account_purge_signal", "None", call)
            /\ UNCHANGED << log_vars, now, has_account, data, facts, marker,
                            ledger_entries, pending_log, signals, rt, loop >>

\* A variant of the filter that also finds a row with a rejection recorded.
config_matches_again(d, c) ==
    /\ d.last_config_ts = c.config_ts
    /\ d.last_config_seqnum = c.config_seqnum
    /\ d.config_flags = c.config_flags
    /\ d.config_data = c.config_data
    /\ within_eps(d.negligible_amount, c.negligible_amount, c.negligible_amount)

\* The filter of process_rejected_config_signal on the row d for the signal
\* c: the config fields are the stored ones, no config_error is stored, and
\* abs(negligible_amount - c.negligible_amount) <= EPS * c.negligible_amount.
config_matches(d, c) ==
    /\ d.last_config_ts = c.config_ts
    /\ d.last_config_seqnum = c.config_seqnum
    /\ d.config_flags = c.config_flags
    /\ d.config_data = c.config_data
    /\ IsNone(d.config_error)
    /\ within_eps(d.negligible_amount, c.negligible_amount, c.negligible_amount)

\* process_rejected_config_signal(**c): one transaction.
process_rejected_config_signal(c) ==
    LET d1 == _insert_info_update_pending_log_entry(
                  [data EXCEPT !.config_error = Some(c.rejection_code)])
    IN IF has_account /\ config_matches(data, c)
       THEN /\ Len(pending_log) < MaxLog
            /\ data' = d1
            /\ pending_log' = Append(pending_log, info_log_entry(d1))
            /\ ret' = Ret("process_rejected_config_signal", "rejected", c)
            /\ UNCHANGED << log_vars, now, has_account, facts, marker,
                            ledger_entries, signals, rt, loop >>
       ELSE /\ ret' = Ret("process_rejected_config_signal", "None", c)
            /\ UNCHANGED << log_vars, now, has_account, data, facts, marker,
                            ledger_entries, pending_log, signals, rt, loop >>

\* ------------------------------------------- committed-transfer facts

\* A CommittedTransfer row (the columns the reconciliation reads).
CommittedTransfer(creation_date, transfer_number, previous_transfer_number, acquired_amount, principal, committed_at) ==
    [creation_date |-> creation_date, transfer_number |-> transfer_number,
     previous_transfer_number |-> previous_transfer_number,
     acquired_amount |-> acquired_amount, principal |-> principal,
     committed_at |-> committed_at]

\* A variant of the table without the primary key: no insert ever collides.
has_no_primary_key(creation_date, transfer_number) == FALSE

\* The primary key (creditor_id, debtor_id, creation_date, transfer_number) of
\* CommittedTransfer: whether a row with the key exists.
has_committed_transfer(creation_date, transfer_number) ==
    \E g \in facts : /\ g.creation_date = creation_date
                     /\ g.transfer_number = transfer_number

\* A variant of the marker condition that holds for no fact.
continues_nothing(d, f) == FALSE

\* Whether a newly stored fact f continues the ledger of the row d, so that
\* the account is marked for reconciliation.
continues_ledger(d, f) ==
    /\ f.creation_date = d.creation_date
    /\ f.previous_transfer_number = d.ledger_last_transfer_number

\* process_account_transfer_signal(**f, ts, retention_interval): one transaction.
process_account_transfer_signal(f, ts, retention_interval) ==
    LET current_ts == now
        key == [creation_date |-> f.creation_date,
                transfer_number |-> f.transfer_number]
    IN
    IF current_ts - Min(ts, f.committed_at) > retention_interval
    THEN /\ ret' = Ret("process_account_transfer_signal", "expired", key)
         /\ UNCHANGED << log_vars, now, has_account, data, facts, marker, ledger_entries,
                         pending_log, signals, rt, loop >>
    ELSE IF ~has_account
    THEN /\ ret' = Ret("process_account_transfer_signal", "no_account", key)
         /\ UNCHANGED << log_vars, now, has_account, data, facts, marker, ledger_entries,
                         pending_log, signals, rt, loop >>
    ELSE IF has_committed_transfer(f.creation_date, f.transfer_number)
    THEN \* the primary key exists: the insert is a no-op
         /\ ret' = Ret("process_account_transfer_signal", "duplicate", key)
         /\ UNCHANGED << log_vars, now, has_account, data, facts, marker, ledger_entries,
                         pending_log, signals, rt, loop >>
    ELSE /\ Len(pending_log) < MaxLog
         /\ facts' = facts \cup {f}
         /\ pending_log' = Append(pending_log,
                [object_type_hint |-> OTH_COMMITTED_TRANSFER,
                 creation_date |-> f.creation_date,
                 transfer_number |-> f.transfer_number])
         /\ marker' = IF continues_ledger(data, f) THEN ensure_pending_ledger_update
                      ELSE marker
         /\ loop' = None
         /\ ret' = Ret("process_account_transfer_signal", "inserted", key)
         /\ UNCHANGED << log_vars, now, has_account, data, ledger_entries, signals, rt >>

\* --------------------------------------------------- the reconciliation pass

\* The last fact of the pending transfers of the row d when they form a chain
\* with no gaps that starts at the ledger's last transfer number; else None.
chain_goal(d) ==
    LET all == order_by_transfer_number(
                   {f \in facts : /\ f.creation_date = d.creation_date
                                  /\ f.transfer_number > d.ledger_last_transfer_number})
        gapless == \A i \in 1 .. Len(all) :
                       all[i].previous_transfer_number =
                           IF i = 1 THEN d.ledger_last_transfer_number
                           ELSE all[i - 1].transfer_number
    IN IF Len(all) > 0 /\ gapless
       THEN Some([transfer_number |-> all[Len(all)].transfer_number,
                  principal |-> all[Len(all)].principal])
       ELSE None

\* A variant of is_done in which stopping at a gap does not end the loop.
is_done_unless_full(broke, fetched_count, burst_count) ==
    fetched_count < burst_count

\* A variant of is_done in which every pass ends the loop.
always_done(broke, fetched_count, burst_count) == TRUE

\* is_done, as the pass leaves it: True when the walk stopped at a gap, else
\* whether fewer than burst_count transfers were fetched.
is_done(broke, fetched_count, burst_count) ==
    IF broke THEN TRUE ELSE fetched_count < burst_count

\* What one pass that started at current_ts and has fetched the transfers
\* does to the row d and the entries it has read.
ledger_update_pass(d, entries, transfers, current_ts, burst_count, max_delay) ==
    LET committed_at_cutoff == current_ts - max_delay
    IN With(walk_transfers(d, entries, None, transfers, 1,
                           committed_at_cutoff), LAMBDA w :
       With(is_done(w.broke, Len(transfers), burst_count), LAMBDA done :
       With(IF done
            THEN _fix_missing_last_transfer_if_necessary(w.data, w.entries,
                                                         max_delay, current_ts)
            ELSE [data |-> w.data, entries |-> w.entries, log_entry |-> None,
                  assert_ok |-> TRUE], LAMBDA h :
       [data |-> h.data, entries |-> h.entries,
        log_entry |-> Or(h.log_entry, w.log_entry),
        is_done |-> done,
        assert_ok |-> w.assert_ok /\ h.assert_ok,
        cutoff |-> committed_at_cutoff])))

\* What one pass does to the row, the entries and the marker.
pending_ledger_update_pass(burst_count, max_delay) ==
    With(_get_sorted_pending_transfers(data, burst_count), LAMBDA transfers :
        ledger_update_pass(data, ledger_entries, transfers, now, burst_count,
                           max_delay))

\* process_pending_ledger_update(C_ID, D_ID, burst_count, max_delay): one
\* transaction.  A first pass of a retry loop (the previous call was not a
\* pass that returned False) records the chain it starts from.
process_pending_ledger_update(burst_count, max_delay) ==
    \E r \in {pending_ledger_update_pass(burst_count, max_delay)} :
    LET call == [committed_at_cutoff |-> r.cutoff, burst_count |-> burst_count]
        in_loop == ret.op = "process_pending_ledger_update" /\ ret.result = "False"
    IN
    IF ~marker
    THEN /\ ret' = Ret("process_pending_ledger_update", "True", call)
         /\ loop' = IF in_loop THEN loop ELSE chain_goal(data)
         /\ UNCHANGED << log_vars, now, has_account, data, facts, marker, ledger_entries,
                         pending_log, signals, rt >>
    ELSE IF ~r.assert_ok
    THEN /\ ret' = Ret("process_pending_ledger_update", "AssertionError", call)
         /\ UNCHANGED << log_vars, now, has_account, data, facts, marker, ledger_entries,
                         pending_log, signals, rt, loop >>
    ELSE /\ Len(r.entries) <= MaxEntries
         /\ IsNone(r.log_entry) \/ Len(pending_log) < MaxLog
         /\ data' = r.data
         /\ ledger_entries' = r.entries
         /\ marker' = IF r.is_done THEN FALSE ELSE marker
         /\ signals' = IF IsNone(r.log_entry) THEN signals
                       ELSE Append(signals, UpdatedLedgerSignal(r.data))
         /\ pending_log' = IF IsNone(r.log_entry) THEN pending_log
                           ELSE Append(pending_log, Val(r.log_entry))
         /\ loop' = IF in_loop THEN loop ELSE chain_goal(data)
         /\ ret' = Ret("process_pending_ledger_update",
                     IF r.is_done THEN "True" ELSE "False", call)
         /\ UNCHANGED << log_vars, now, has_account, facts, rt >>

Tick ==
    /\ now < MaxTime
    /\ now' = now + 1
    /\ UNCHANGED << log_vars, has_account, data, facts, marker, ledger_entries,
                    pending_log, signals, rt, ret, loop >>

\* ------------------------------------------------ the running transfer

\* A variant of is_finalized that is never true.
never_finalized(r) == FALSE

\* A variant of is_finalized that takes a failed transfer for an open one.
is_finalized_with_success(r) == ~IsNone(r.finalized_at) /\ IsNone(r.error_code)

\* RunningTransfer.is_finalized: bool(finalized_at).
is_finalized(r) == ~IsNone(r.finalized_at)

\* A variant of is_settled for which no transfer is ever prepared.
never_settled(r) == FALSE

\* A variant of is_settled that holds only once the transfer is finalized.
is_settled_and_finalized(r) == ~IsNone(r.transfer_id) /\ ~IsNone(r.finalized_at)

\* RunningTransfer.is_settled: transfer_id is not None.
is_settled(r) == ~IsNone(r.transfer_id)

\* The RunningTransfer row that initiate_running_transfer inserts; the
\* sequence gives the first row the coordinator_request_id 1.
RunningTransfer(debtor_id, amount, recipient) ==
    [creditor_id |-> C_ID, debtor_id |-> debtor_id, amount |-> amount,
     recipient |-> recipient, transfer_note_format |-> "json",
     transfer_note |-> "{}", locked_amount |-> 0,
     coordinator_request_id |-> 1, transfer_id |-> None,
     finalized_at |-> None, error_code |-> None,
     total_locked_amount |-> None, latest_update_id |-> 1]

\* A variant of the lookup that does not compare the request id.
find_any_running_transfer(coordinator_id, coordinator_request_id) == rt

\* _find_running_transfer(coordinator_id, coordinator_request_id): the row
\* (as an optional value) with the creditor and the request id.
_find_running_transfer(coordinator_id, coordinator_request_id) ==
    IF /\ ~IsNone(rt)
       /\ Val(rt).creditor_id = coordinator_id
       /\ Val(rt).coordinator_request_id = coordinator_request_id
    THEN rt ELSE None

\* A variant of the finalization that stages no log entry.
finalize_without_log(r, error_code, total_locked_amount, current_ts) ==
    [rt |-> IF is_finalized(r) THEN r
            ELSE [r EXCEPT !.latest_update_id = @ + 1,
                           !.finalized_at = Some(current_ts),
                           !.error_code = error_code,
                           !.total_locked_amount = total_locked_amount],
     log |-> << >>]

\* _finalize_running_transfer(rt, error_code, total_locked_amount): the row
\* and the PendingLogEntry rows it adds; an already finalized row is left
\* alone.
_finalize_running_transfer(r, error_code, total_locked_amount, current_ts) ==
    IF is_finalized(r)
    THEN [rt |-> r, log |-> << >>]
    ELSE LET f == [r EXCEPT !.latest_update_id = @ + 1,
                            !.finalized_at = Some(current_ts),
                            !.error_code = error_code,
                            !.total_locked_amount = total_locked_amount]
         IN [rt |-> f,
             log |-> << [object_type_hint |-> OTH_TRANSFER,
                         object_update_id |-> f.latest_update_id,
                         data_finalized_at |-> f.finalized_at,
                         data_error_code |-> f.error_code] >>]

\* A variant of the signal that commits nothing.
DismissTransferSignal(debtor_id, creditor_id, transfer_id, coordinator_id, coordinator_request_id, committed_amount, transfer_note_format, transfer_note) ==
    [type |-> "FinalizeTransferSignal", debtor_id |-> debtor_id,
     creditor_id |-> creditor_id, transfer_id |-> transfer_id,
     coordinator_id |-> coordinator_id,
     coordinator_request_id |-> coordinator_request_id,
     committed_amount |-> 0, transfer_note_format |-> "", transfer_note |-> ""]

FinalizeTransferSignal(debtor_id, creditor_id, transfer_id, coordinator_id, coordinator_request_id, committed_amount, transfer_note_format, transfer_note) ==
    [type |-> "FinalizeTransferSignal", debtor_id |-> debtor_id,
     creditor_id |-> creditor_id, transfer_id |-> transfer_id,
     coordinator_id |-> coordinator_id,
     coordinator_request_id |-> coordinator_request_id,
     committed_amount |-> committed_amount,
     transfer_note_format |-> transfer_note_format,
     transfer_note |-> transfer_note]

\* initiate_running_transfer(C_ID, TEST_UUID, debtor_id, amount, ...): one
\* transaction.
initiate_running_transfer(debtor_id, amount, recipient) ==
    LET call == [debtor_id |-> debtor_id, amount |-> amount]
        r == RunningTransfer(debtor_id, amount, recipient)
    IN IF ~IsNone(rt)
       THEN /\ ret' = Ret("initiate_running_transfer", "TransferExists", call)
            /\ UNCHANGED << log_vars, now, has_account, data, facts, marker, ledger_entries,
                            pending_log, signals, rt, loop >>
       ELSE /\ Len(pending_log) < MaxLog
            /\ Len(signals) < MaxSignals
            /\ rt' = Some(r)
            /\ signals' = Append(signals,
                   [type |-> "PrepareTransferSignal", creditor_id |-> C_ID,
                    debtor_id |-> debtor_id,
                    coordinator_request_id |-> r.coordinator_request_id,
                    recipient |-> recipient, locked_amount |-> r.locked_amount])
            /\ pending_log' = Append(pending_log,
                   [object_type_hint |-> OTH_TRANSFER,
                    object_update_id |-> r.latest_update_id,
                    is_created |-> TRUE])
            /\ ret' = Ret("initiate_running_transfer", "None", call)
            /\ UNCHANGED << log_vars, now, has_account, data, facts, marker, ledger_entries,
                            loop >>

\* cancel_running_transfer(C_ID, TEST_UUID): one transaction.
cancel_running_transfer ==
    LET call == [creditor_id |-> C_ID]
        f == _finalize_running_transfer(Val(rt), Some(SC_CANCELED_BY_THE_SENDER),
                                        None, now)
    IN IF IsNone(rt)
       THEN /\ ret' = Ret("cancel_running_transfer", "TransferDoesNotExist", call)
            /\ UNCHANGED << log_vars, now, has_account, data, facts, marker, ledger_entries,
                            pending_log, signals, rt, loop >>
       ELSE IF is_settled(Val(rt))
       THEN /\ ret' = Ret("cancel_running_transfer",
                          "ForbiddenTransferCancellation", call)
            /\ UNCHANGED << log_vars, now, has_account, data, facts, marker, ledger_entries,
                            pending_log, signals, rt, loop >>
       ELSE /\ Len(pending_log) + Len(f.log) <= MaxLog
            /\ rt' = Some(f.rt)
            /\ pending_log' = pending_log \o f.log
            /\ ret' = Ret("cancel_running_transfer", "None", call)
            /\ UNCHANGED << log_vars, now, has_account, data, facts, marker, ledger_entries,
                            signals, loop >>

\* A variant of delete_running_transfer that refuses every deletion.
refuse_transfer_deletion ==
    /\ ret' = Ret("delete_running_transfer", "ForbiddenTransferDeletion",
                  [creditor_id |-> C_ID])
    /\ UNCHANGED << log_vars, now, has_account, data, facts, marker,
                    ledger_entries, pending_log, signals, rt, loop >>

\* delete_running_transfer(C_ID, TEST_UUID): one transaction.  The row is
\* deleted whether or not it is finalized (routes/transfers.py: "deleting a
\* running (not finalized) transfer does not cancel it").
delete_running_transfer ==
    LET call == [creditor_id |-> C_ID]
    IN IF IsNone(rt)
       THEN /\ ret' = Ret("delete_running_transfer", "TransferDoesNotExist", call)
            /\ UNCHANGED << log_vars, now, has_account, data, facts, marker,
                            ledger_entries, pending_log, signals, rt, loop >>
       ELSE /\ Len(pending_log) < MaxLog
            /\ rt' = None
            /\ pending_log' = Append(pending_log,
                   [object_type_hint |-> OTH_TRANSFER, is_deleted |-> TRUE])
            /\ ret' = Ret("delete_running_transfer", "None", call)
            /\ UNCHANGED << log_vars, now, has_account, data, facts, marker,
                            ledger_entries, signals, loop >>

\* process_rejected_direct_transfer_signal(...): one transaction.
process_rejected_direct_transfer_signal(coordinator_id, coordinator_request_id, status_code, total_locked_amount, debtor_id, creditor_id) ==
    LET call == [coordinator_id |-> coordinator_id,
                 coordinator_request_id |-> coordinator_request_id,
                 status_code |-> status_code,
                 total_locked_amount |-> total_locked_amount,
                 debtor_id |-> debtor_id, creditor_id |-> creditor_id]
        found == _find_running_transfer(coordinator_id, coordinator_request_id)
        r == Val(found)
        f == IF /\ status_code # SC_OK
                /\ r.debtor_id = debtor_id
                /\ r.creditor_id = creditor_id
             THEN _finalize_running_transfer(r, Some(status_code),
                                             Some(total_locked_amount), now)
             ELSE _finalize_running_transfer(r, Some(SC_UNEXPECTED_ERROR), None, now)
    IN IF ~IsNone(found) /\ ~is_finalized(r)
       THEN /\ Len(pending_log) + Len(f.log) <= MaxLog
            /\ rt' = Some(f.rt)
            /\ pending_log' = pending_log \o f.log
            /\ ret' = Ret("process_rejected_direct_transfer_signal", "None", call)
            /\ UNCHANGED << log_vars, now, has_account, data, facts, marker, ledger_entries,
                            signals, loop >>
       ELSE /\ ret' = Ret("process_rejected_direct_transfer_signal", "None", call)
            /\ UNCHANGED << log_vars, now, has_account, data, facts, marker, ledger_entries,
                            pending_log, signals, rt, loop >>

\* process_prepared_direct_transfer_signal(...): one transaction.  A matching
\* transfer that is neither prepared nor finalized records the transfer_id;
\* the reservation the transfer has recorded is committed in full, any other
\* one is dismissed.
process_prepared_direct_transfer_signal(debtor_id, creditor_id, transfer_id, coordinator_id, coordinator_request_id, locked_amount, recipient) ==
    LET call == [debtor_id |-> debtor_id, creditor_id |-> creditor_id,
                 transfer_id |-> transfer_id, coordinator_id |-> coordinator_id,
                 coordinator_request_id |-> coordinator_request_id,
                 locked_amount |-> locked_amount, recipient |-> recipient]
        found == _find_running_transfer(coordinator_id, coordinator_request_id)
        r == Val(found)
        rt_matches_the_signal ==
            /\ ~IsNone(found)
            /\ r.debtor_id = debtor_id
            /\ r.creditor_id = creditor_id
            /\ r.recipient = recipient
            /\ r.locked_amount = locked_amount
        r1 == IF ~is_finalized(r) /\ ~is_settled(r)
              THEN [r EXCEPT !.transfer_id = Some(transfer_id),
                             !.latest_update_id = @ + 1]
              ELSE r
    IN /\ Len(signals) < MaxSignals
       /\ IF rt_matches_the_signal
          THEN /\ rt' = Some(r1)
               /\ signals' = Append(signals,
                      IF r1.transfer_id = Some(transfer_id)
                      THEN FinalizeTransferSignal(debtor_id, creditor_id,
                               transfer_id, coordinator_id, coordinator_request_id,
                               r1.amount, r1.transfer_note_format, r1.transfer_note)
                      ELSE FinalizeTransferSignal(debtor_id, creditor_id,
                               transfer_id, coordinator_id, coordinator_request_id,
                               0, "", ""))
          ELSE /\ rt' = rt
               /\ signals' = Append(signals,
                      FinalizeTransferSignal(debtor_id, creditor_id, transfer_id,
                          coordinator_id, coordinator_request_id, 0, "", ""))
       /\ ret' = Ret("process_prepared_direct_transfer_signal", "None", call)
       /\ UNCHANGED << log_vars, now, has_account, data, facts, marker, ledger_entries,
                       pending_log, loop >>

\* process_finalized_direct_transfer_signal(...): one transaction.
process_finalized_direct_transfer_signal(debtor_id, creditor_id, transfer_id, coordinator_id, coordinator_request_id, committed_amount, status_code, total_locked_amount) ==
    LET call == [debtor_id |-> debtor_id, creditor_id |-> creditor_id,
                 transfer_id |-> transfer_id, coordinator_id |-> coordinator_id,
                 coordinator_request_id |-> coordinator_request_id,
                 committed_amount |-> committed_amount,
                 status_code |-> status_code,
                 total_locked_amount |-> total_locked_amount]
        found == _find_running_transfer(coordinator_id, coordinator_request_id)
        r == Val(found)
        rt_matches_the_signal ==
            /\ ~IsNone(found)
            /\ r.debtor_id = debtor_id
            /\ r.creditor_id = creditor_id
            /\ r.transfer_id = Some(transfer_id)
        f == IF status_code = SC_OK /\ committed_amount = r.amount
             THEN _finalize_running_transfer(r, None, None, now)
             ELSE IF status_code # SC_OK /\ committed_amount = 0
             THEN _finalize_running_transfer(r, Some(status_code),
                                             Some(total_locked_amount), now)
             ELSE _finalize_running_transfer(r, Some(SC_UNEXPECTED_ERROR), None, now)
    IN IF rt_matches_the_signal /\ ~is_finalized(r)
       THEN /\ Len(pending_log) + Len(f.log) <= MaxLog
            /\ rt' = Some(f.rt)
            /\ pending_log' = pending_log \o f.log
            /\ ret' = Ret("process_finalized_direct_transfer_signal", "None", call)
            /\ UNCHANGED << log_vars, now, has_account, data, facts, marker, ledger_entries,
                            signals, loop >>
       ELSE /\ ret' = Ret("process_finalized_direct_transfer_signal", "None", call)
            /\ UNCHANGED << log_vars, now, has_account, data, facts, marker, ledger_entries,
                            pending_log, signals, rt, loop >>

\* --------------------------------------------------------- the change log

TYPE_ACCOUNT == "Account"
TYPE_ACCOUNT_LIST == "AccountList"
TYPE_CREDITOR == "Creditor"
TYPE_TRANSFER_LIST == "TransferList"

\* models/creditors.py Creditor: the counters of a new row.
Creditor ==
    [last_log_entry_id |-> 0, creditor_latest_update_id |-> 1,
     account_list_latest_update_id |-> 1, transfer_list_latest_update_id |-> 1]

\* Creditor.generate_log_entry_id(): the row after the call; the id handed
\* out is its last_log_entry_id.
generate_log_entry_id(c) == [c EXCEPT !.last_log_entry_id = @ + 1]

\* A column of a PendingLogEntry row, or its default when the handler that
\* staged the row did not set it.
column(entry, name, default) ==
    IF name \in DOMAIN entry THEN entry[name] ELSE default

\* The LogEntry row: object_type, object_update_id and is_deleted as given,
\* pending the PendingLogEntry row it was copied from (None for a row that
\* was written directly).
LogEntry(entry_id, object_type, object_update_id, is_deleted, pending) ==
    [entry_id |-> entry_id, object_type |-> object_type,
     object_update_id |-> object_update_id, is_deleted |-> is_deleted,
     pending |-> pending]

\* _add_log_entry(creditor, ...) on st = [creditor, log]: the Creditor row as
\* the transaction holds it and the LogEntry rows the transaction has added.
_add_log_entry(st, object_type, object_update_id, is_deleted, pending) ==
    With(generate_log_entry_id(st.creditor), LAMBDA c :
        [creditor |-> c,
         log |-> Append(st.log, LogEntry(c.last_log_entry_id, object_type,
                                         object_update_id, is_deleted, pending))])

\* A variant of the test that sees only the creation of a transfer.
is_transfer_creation(entry) ==
    /\ entry.object_type_hint = OTH_TRANSFER
    /\ column(entry, "is_created", FALSE)

\* Whether the flush adds a transfer-list entry after the entry.
is_transfer_list_change(entry) ==
    /\ entry.object_type_hint = OTH_TRANSFER
    /\ column(entry, "is_created", FALSE) \/ column(entry, "is_deleted", FALSE)

\* A variant of the loop body that deletes the entry and writes nothing.
drop_entry(st, entry) == st

\* The body of the for loop of process_pending_log_entries for one entry.
flush_entry(st, entry) ==
    With(_add_log_entry(st, entry.object_type_hint,
                        IF "object_update_id" \in DOMAIN entry
                        THEN Some(entry.object_update_id) ELSE None,
                        column(entry, "is_deleted", FALSE), Some(entry)),
         LAMBDA s1 :
        IF is_transfer_list_change(entry)
        THEN With([s1 EXCEPT !.creditor.transfer_list_latest_update_id = @ + 1],
                  LAMBDA s2 :
                 _add_log_entry(s2, TYPE_TRANSFER_LIST,
                                Some(s2.creditor.transfer_list_latest_update_id),
                                FALSE, None))
        ELSE s1)

\* A variant of the for loop that copies the newest staged entry first.
RECURSIVE flush_newest_first(_, _, _)
flush_newest_first(st, entries, i) ==
    IF i > Len(entries) THEN st
    ELSE flush_entry(flush_newest_first(st, entries, i + 1), entries[i])

\* The for loop of process_pending_log_entries over entries[i..].
RECURSIVE flush_entries(_, _, _)
flush_entries(st, entries, i) ==
    IF i > Len(entries) THEN st
    ELSE flush_entries(flush_entry(st, entries[i]), entries, i + 1)

\* _create_new_account(creditor, debtor_id, current_ts): the LogEntry rows it
\* writes and the Creditor row it leaves.
_create_new_account(st) ==
    With(_add_log_entry(st, TYPE_ACCOUNT, Some(1), FALSE, None), LAMBDA s1 :
    With([s1 EXCEPT !.creditor.account_list_latest_update_id = @ + 1], LAMBDA s2 :
        _add_log_entry(s2, TYPE_ACCOUNT_LIST,
                       Some(s2.creditor.account_list_latest_update_id),
                       FALSE, None)))

\* The workers that run transactions on the Creditor row.
Workers == {"w1", "w2"}

\* Creditor.lock_instance(creditor_id): the row, or None.
lock_instance(creditor_id) == IF creditor_id = C_ID THEN Some(creditor) ELSE None

\* process_pending_log_entries(creditor_id): one transaction, run with no
\* other transaction on the Creditor row open.
process_pending_log_entries(creditor_id) ==
    LET call == [creditor_id |-> creditor_id, pending |-> pending_log,
                 last_log_entry_id |-> creditor.last_log_entry_id,
                 transfer_list_latest_update_id |->
                     creditor.transfer_list_latest_update_id]
        locked == lock_instance(creditor_id)
    IN IF IsNone(locked)
       THEN /\ ret' = Ret("process_pending_log_entries", "None", call)
            /\ UNCHANGED << now, has_account, data, facts, marker, ledger_entries,
                            pending_log, signals, rt, loop, log_vars >>
       ELSE \E st \in {flush_entries([creditor |-> Val(locked), log |-> << >>],
                                     pending_log, 1)} :
            /\ Len(log_entries) + Len(st.log) <= MaxLogEntries
            /\ creditor' = st.creditor
            /\ log_entries' = log_entries \o st.log
            /\ pending_log' = << >>
            /\ ret' = Ret("process_pending_log_entries", "None", call)
            /\ UNCHANGED << now, has_account, data, facts, marker, ledger_entries,
                            signals, rt, loop, txn >>

\* The AccountData row that _create_new_account inserts (the column defaults
\* of models/accounts.py, last_config_ts = current_ts).
AccountData(current_ts) ==
    [has_server_account |-> FALSE, creation_date |-> DATE0,
     last_change_ts |-> 0, last_change_seqnum |-> 0,
     principal |-> 0, interest |-> 0, interest_rate |-> 0,
     last_interest_rate_change_ts |-> 0, transfer_note_max_bytes |-> 0,
     account_id |-> "", debtor_info_iri |-> None,
     debtor_info_content_type |-> None, debtor_info_sha256 |-> None,
     last_transfer_number |-> 0, last_transfer_committed_at |-> 0,
     last_heartbeat_ts |-> current_ts,
     last_config_ts |-> current_ts, last_config_seqnum |-> 0,
     negligible_amount |-> DEFAULT_NEGLIGIBLE_AMOUNT,
     config_flags |-> DEFAULT_CONFIG_FLAGS, config_data |-> "",
     is_config_effectual |-> FALSE, config_error |-> None,
     info_latest_update_id |-> 1,
     ledger_principal |-> 0, ledger_last_transfer_number |-> 0,
     ledger_last_entry_id |-> 0, ledger_latest_update_id |-> 1,
     ledger_pending_transfer_ts |-> None]

\* A variant of the row lock that never makes a transaction wait.
never_locked == FALSE

\* Whether a transaction holds the lock on the Creditor row (it was taken by
\* SELECT ... FOR UPDATE and is held until the transaction ends).
creditor_row_is_locked ==
    \E w \in Workers : ~IsNone(txn[w]) /\ "Creditor" \in Val(txn[w]).locks

\* What delete_account finds in rows that are not part of the state, given as
\* the argument of its transaction: arg = allow_unsafe_deletion + 2 * pegged,
\* with allow_unsafe_deletion the column of the AccountData row (0 or 1) and
\* pegged 1 iff an AccountExchange row of another account of the creditor has
\* peg_debtor_id = debtor_id.
allows_unsafe_deletion(arg) == arg % 2 = 1

\* A variant of the peg query that never finds a row.
no_pegged_accounts(arg) == FALSE

\* db.session.query(pegged_accounts_query.exists()).scalar()
has_pegged_accounts(arg) == arg \div 2 = 1

\* Whether delete_account gets as far as its DELETE statement.
deletes_the_account(d, arg) ==
    /\ is_deletion_safe(d) \/ allows_unsafe_deletion(arg)
    /\ ~has_pegged_accounts(arg)

\* The LogEntry rows delete_account writes and the Creditor row it leaves.
RECURSIVE deletion_events(_, _, _)
deletion_events(st, object_types, i) ==
    IF i > Len(object_types) THEN st
    ELSE deletion_events(_add_log_entry(st, object_types[i], None, TRUE, None),
                         object_types, i + 1)

delete_account_log(st) ==
    With([st EXCEPT !.creditor.account_list_latest_update_id = @ + 1], LAMBDA s1 :
    With(_add_log_entry(s1, TYPE_ACCOUNT_LIST,
                        Some(s1.creditor.account_list_latest_update_id),
                        FALSE, None), LAMBDA s2 :
        deletion_events(s2, << TYPE_ACCOUNT, "AccountConfig", OTH_ACCOUNT_INFO,
                               OTH_ACCOUNT_LEDGER, "AccountDisplay",
                               "AccountExchange", "AccountKnowledge" >>, 1)))

\* procedures/common.py allow_update(creditor, 'creditor_latest_update_id',
\* latest_update_id, {}): the update is performed when latest_update_id is
\* the next one.
allow_update(c, latest_update_id) == latest_update_id = c.creditor_latest_update_id + 1

\* procedures/common.py allow_update raising AlreadyUpToDate: the request
\* repeats the update that was applied last (it carries the stored id, and
\* update_creditor passes no other field to compare).
already_up_to_date(c, latest_update_id) == latest_update_id = c.creditor_latest_update_id

\* A variant of the try statement without its except clause.
conflict_unless_next(c, latest_update_id) ==
    IF allow_update(c, latest_update_id) THEN "perform_update" ELSE "UpdateConflict"

\* The try statement of update_creditor: AlreadyUpToDate is caught and the
\* creditor is returned as it is; UpdateConflict is not caught.
try_allow_update(c, latest_update_id) ==
    IF already_up_to_date(c, latest_update_id) THEN "AlreadyUpToDate"
    ELSE IF allow_update(c, latest_update_id) THEN "perform_update"
    ELSE "UpdateConflict"

\* The first statement of a transaction of worker w that runs op with arg on
\* the Creditor row: it waits for the row lock, then reads the row (and, for
\* a flush, the staged entries).
begin_transaction(w, op, arg) ==
    /\ IsNone(txn[w])
    /\ ~creditor_row_is_locked
    /\ txn' = [txn EXCEPT ![w] =
                   Some([op |-> op, arg |-> arg, locks |-> {"Creditor"},
                         creditor |-> creditor,
                         pending |-> IF op = "process_pending_log_entries"
                                     THEN pending_log ELSE << >>])]
    /\ ret' = Ret("begin_transaction", op, [worker |-> w])
    /\ UNCHANGED << now, has_account, data, facts, marker, ledger_entries,
                    pending_log, signals, rt, loop, creditor, log_entries >>

\* The transaction of worker w ends without having written anything.
rollback(w, op, result) ==
    /\ txn' = [txn EXCEPT ![w] = None]
    /\ ret' = Ret(op, result, [worker |-> w])
    /\ UNCHANGED << now, has_account, data, facts, marker, ledger_entries,
                    pending_log, signals, rt, loop, creditor, log_entries >>

\* The transaction of worker w writes the Creditor row as it holds it and the
\* LogEntry rows it has added, and commits.
commit(w, op, st) ==
    /\ Len(log_entries) + Len(st.log) <= MaxLogEntries
    /\ creditor' = st.creditor
    /\ log_entries' = log_entries \o st.log
    /\ txn' = [txn EXCEPT ![w] = None]
    /\ ret' = Ret(op, "None", [worker |-> w])

\* The rest of the transaction of worker w, by the procedure it runs.
end_transaction(w) ==
    /\ ~IsNone(txn[w])
    /\ LET t == Val(txn[w])
           st == [creditor |-> t.creditor, log |-> << >>]
       IN IF t.op = "process_pending_log_entries"
          THEN /\ commit(w, t.op, flush_entries(st, t.pending, 1))
               /\ pending_log' = SubSeq(pending_log,
                                        Min(Len(t.pending), Len(pending_log)) + 1,
                                        Len(pending_log))
               /\ UNCHANGED << now, has_account, data, facts, marker,
                               ledger_entries, signals, rt, loop >>
          ELSE IF t.op = "create_new_account"
          THEN IF has_account
               THEN rollback(w, t.op, "AccountExists")
               ELSE /\ commit(w, t.op, _create_new_account(st))
                    /\ has_account' = TRUE
                    /\ data' = AccountData(now)
                    /\ Len(signals) < MaxSignals
                    /\ signals' = Append(signals,
                           [type |-> "ConfigureAccountSignal", seqnum |-> 0,
                            negligible_amount |-> DEFAULT_NEGLIGIBLE_AMOUNT,
                            config_flags |-> DEFAULT_CONFIG_FLAGS])
                    /\ UNCHANGED << now, facts, marker, ledger_entries,
                                    pending_log, rt, loop >>
          ELSE IF t.op = "delete_account"
          THEN IF ~has_account
               THEN rollback(w, t.op, "AccountDoesNotExist")
               ELSE IF ~(is_deletion_safe(data) \/ allows_unsafe_deletion(t.arg))
               THEN rollback(w, t.op, "UnsafeAccountDeletion")
               ELSE IF has_pegged_accounts(t.arg)
               THEN rollback(w, t.op, "ForbiddenPegDeletion")
               ELSE /\ commit(w, t.op, delete_account_log(st))
                    /\ has_account' = FALSE
                    /\ marker' = FALSE
                    /\ UNCHANGED << now, data, facts, ledger_entries,
                                    pending_log, signals, rt, loop >>
          ELSE IF try_allow_update(t.creditor, t.arg) = "AlreadyUpToDate"
          THEN rollback(w, t.op, "None")
          ELSE IF try_allow_update(t.creditor, t.arg) = "UpdateConflict"
          THEN rollback(w, t.op, "UpdateConflict")
          ELSE /\ commit(w, t.op,
                         _add_log_entry(
                             [st EXCEPT !.creditor.creditor_latest_update_id = t.arg],
                             TYPE_CREDITOR, Some(t.arg), FALSE, None))
               /\ UNCHANGED << now, has_account, data, facts, marker,
                               ledger_entries, pending_log, signals, rt, loop >>

\* The transaction of worker w fails before it commits (the database aborts
\* it, or the worker dies): db.atomic rolls back what it has done.
abort_transaction(w) ==
    /\ ~IsNone(txn[w])
    /\ rollback(w, Val(txn[w]).op, "rolled back")

\* ------------------------------------- transactions on the account's rows

\* A variant of the row locks of the account under which no transaction ever
\* waits for another.
no_row_lock(w, row) == FALSE

\* Whether a worker other than w holds a lock on the row that conflicts with
\* the lock w asks for.  The locks taken on the PendingLedgerUpdate row (FOR
\* UPDATE), on the AccountData row (FOR NO KEY UPDATE) and by a DELETE conflict
\* with one another and with themselves.
row_is_locked(w, row) ==
    \E v \in Workers \ {w} : ~IsNone(txn[v]) /\ row \in Val(txn[v]).locks

\* The transaction of worker w, with one more row locked and what it has read.
holding(t, row, read) == [op |-> t.op, arg |-> t.arg, locks |-> t.locks \cup {row}, read |-> read]

\* The rows that a transaction has added to the rows it had read.
added_rows(rows, was_read) == SubSeq(rows, Len(was_read) + 1, Len(rows))

\* process_pending_ledger_update, its first statement: the PendingLedgerUpdate
\* row is selected FOR UPDATE.  Without a row the call returns True at once.
lock_pending_ledger_update(w, burst_count, max_delay) ==
    /\ IsNone(txn[w])
    /\ IF ~marker
       THEN process_pending_ledger_update(burst_count, max_delay)
       ELSE /\ ~row_is_locked(w, "PendingLedgerUpdate")
            /\ txn' = [txn EXCEPT ![w] =
                   Some([op |-> "process_pending_ledger_update",
                         arg |-> burst_count,
                         locks |-> {"PendingLedgerUpdate"},
                         read |-> [current_ts |-> now, max_delay |-> max_delay]])]
            /\ ret' = Ret("begin_transaction", "process_pending_ledger_update",
                          [worker |-> w])
            /\ UNCHANGED << now, has_account, data, facts, marker, ledger_entries,
                            pending_log, signals, rt, loop, creditor, log_entries >>

\* process_pending_ledger_update, its second and third statements: the
\* AccountData row is selected FOR NO KEY UPDATE and the pending transfers
\* are fetched.
lock_account_data_of_ledger(w) ==
    /\ ~IsNone(txn[w])
    /\ LET t == Val(txn[w])
       IN /\ t.op = "process_pending_ledger_update"
          /\ "AccountData" \notin t.locks
          /\ has_account
          /\ ~row_is_locked(w, "AccountData")
          /\ txn' = [txn EXCEPT ![w] =
                 Some(holding(t, "AccountData",
                     [current_ts |-> t.read.current_ts,
                      max_delay |-> t.read.max_delay,
                      data |-> data, entries |-> ledger_entries,
                      transfers |-> _get_sorted_pending_transfers(data, t.arg)]))]
          /\ ret' = Ret("with_for_update", t.op, [worker |-> w])
          /\ UNCHANGED << now, has_account, data, facts, marker, ledger_entries,
                          pending_log, signals, rt, loop, creditor, log_entries >>

\* process_pending_ledger_update, the rest: the transfers that were fetched
\* are added to the ledger that was read, the rows are written and the
\* transaction commits.
commit_pending_ledger_update(w) ==
    /\ ~IsNone(txn[w])
    /\ Val(txn[w]).op = "process_pending_ledger_update"
    /\ "AccountData" \in Val(txn[w]).locks
    /\ LET t == Val(txn[w])
           call == [committed_at_cutoff |-> t.read.current_ts - t.read.max_delay,
                    burst_count |-> t.arg, worker |-> w]
       IN \E r \in {ledger_update_pass(t.read.data, t.read.entries, t.read.transfers,
                                       t.read.current_ts, t.arg, t.read.max_delay)} :
          /\ txn' = [txn EXCEPT ![w] = None]
          /\ IF ~r.assert_ok
             THEN /\ ret' = Ret("process_pending_ledger_update", "AssertionError", call)
                  /\ UNCHANGED << now, has_account, data, facts, marker,
                                  ledger_entries, pending_log, signals, rt, loop,
                                  creditor, log_entries >>
             ELSE /\ Len(ledger_entries) + Len(added_rows(r.entries, t.read.entries))
                         <= MaxEntries
                  /\ IsNone(r.log_entry) \/ Len(pending_log) < MaxLog
                  /\ IsNone(r.log_entry) \/ Len(signals) < MaxSignals
                  /\ data' = r.data
                  /\ ledger_entries' =
                         ledger_entries \o added_rows(r.entries, t.read.entries)
                  /\ marker' = IF r.is_done THEN FALSE ELSE marker
                  /\ signals' = IF IsNone(r.log_entry) THEN signals
                                ELSE Append(signals, UpdatedLedgerSignal(r.data))
                  /\ pending_log' = IF IsNone(r.log_entry) THEN pending_log
                                    ELSE Append(pending_log, Val(r.log_entry))
                  /\ ret' = Ret("process_pending_ledger_update",
                                IF r.is_done THEN "True" ELSE "False", call)
                  /\ UNCHANGED << now, has_account, facts, rt, loop, creditor,
                                  log_entries >>

\* process_account_update_signal, up to its first statement: a signal that is
\* not expired selects the AccountData row FOR NO KEY UPDATE.  (Without a row
\* the handler discards the orphaned account and is done.)
lock_account_data_of_signal(w, s, ttl) ==
    /\ IsNone(txn[w])
    /\ now - s.ts <= ttl
    /\ has_account
    /\ ~row_is_locked(w, "AccountData")
    /\ txn' = [txn EXCEPT ![w] =
           Some([op |-> "process_account_update_signal", arg |-> ttl,
                 locks |-> {"AccountData"},
                 read |-> [current_ts |-> now, signal |-> s, data |-> data,
                           entries |-> ledger_entries]])]
    /\ ret' = Ret("begin_transaction", "process_account_update_signal",
                  [worker |-> w])
    /\ UNCHANGED << now, has_account, data, facts, marker, ledger_entries,
                    pending_log, signals, rt, loop, creditor, log_entries >>

\* process_account_update_signal, the rest: the signal is applied to the row
\* that was read, the rows are written and the transaction commits.
commit_account_update(w) ==
    /\ ~IsNone(txn[w])
    /\ Val(txn[w]).op = "process_account_update_signal"
    /\ LET t == Val(txn[w])
           s == t.read.signal
           d == t.read.data
           hb == heartbeat(d, s.ts, t.read.current_ts)
           call == [ts |-> s.ts, ttl |-> t.arg, creation_date |-> s.creation_date,
                    last_change_ts |-> s.last_change_ts,
                    last_change_seqnum |-> s.last_change_seqnum, worker |-> w]
           is_new_server_account == s.creation_date > d.creation_date
           is_account_id_changed == s.account_id # d.account_id
           a == apply_snapshot(hb, s)
           info_log == IF a.is_info_updated THEN << info_log_entry(a.data) >>
                       ELSE << >>
           d2 == IF is_new_server_account
                 THEN [a.data EXCEPT !.ledger_pending_transfer_ts = None]
                 ELSE a.data
           u == IF is_new_server_account
                THEN _update_ledger(d2, t.read.entries, 0, 0, 0, TRUE)
                ELSE _update_ledger(d2, t.read.entries,
                                    d2.ledger_last_transfer_number, 0,
                                    d2.ledger_principal, TRUE)
       IN /\ txn' = [txn EXCEPT ![w] = None]
          /\ IF event_le(s.creation_date, s.last_change_ts, s.last_change_seqnum,
                         d.creation_date, d.last_change_ts, d.last_change_seqnum)
             THEN /\ data' = hb
                  /\ ret' = Ret("process_account_update_signal", "stale", call)
                  /\ UNCHANGED << now, has_account, facts, marker, ledger_entries,
                                  pending_log, signals, rt, loop, creditor,
                                  log_entries >>
             ELSE IF is_new_server_account \/ is_account_id_changed
             THEN IF ~u.assert_ok
                  THEN /\ ret' = Ret("process_account_update_signal",
                                     "AssertionError", call)
                       /\ UNCHANGED << now, has_account, data, facts, marker,
                                       ledger_entries, pending_log, signals, rt,
                                       loop, creditor, log_entries >>
                  ELSE /\ Len(ledger_entries)
                              + Len(added_rows(u.entries, t.read.entries))
                              <= MaxEntries
                       /\ Len(pending_log) + Len(info_log) < MaxLog
                       /\ Len(signals) < MaxSignals
                       /\ data' = u.data
                       /\ ledger_entries' =
                              ledger_entries \o added_rows(u.entries, t.read.entries)
                       /\ signals' = Append(signals, UpdatedLedgerSignal(u.data))
                       /\ pending_log' =
                              pending_log \o info_log \o << Val(u.log_entry) >>
                       /\ marker' = ensure_pending_ledger_update
                       /\ ret' = Ret("process_account_update_signal", "applied", call)
                       /\ UNCHANGED << now, has_account, facts, rt, loop, creditor,
                                       log_entries >>
             ELSE /\ Len(pending_log) + Len(info_log) <= MaxLog
                  /\ data' = a.data
                  /\ pending_log' = pending_log \o info_log
                  /\ ret' = Ret("process_account_update_signal", "applied", call)
                  /\ UNCHANGED << now, has_account, facts, marker, ledger_entries,
                                  signals, rt, loop, creditor, log_entries >>

\* delete_account, its DELETE statement: the deletion of the Account row
\* cascades to the AccountData row and from there to the PendingLedgerUpdate
\* row, and locks each row it deletes.
cascade_delete(w) ==
    /\ ~IsNone(txn[w])
    /\ LET t == Val(txn[w])
           row == IF "AccountData" \in t.locks THEN "PendingLedgerUpdate"
                  ELSE "AccountData"
       IN /\ t.op = "delete_account"
          /\ has_account
          /\ deletes_the_account(data, t.arg)
          /\ row \notin t.locks
          /\ row = "PendingLedgerUpdate" => marker
          /\ ~row_is_locked(w, row)
          /\ txn' = [txn EXCEPT ![w] = Some([t EXCEPT !.locks = @ \cup {row}])]
          /\ ret' = Ret("cascade_delete", row, [worker |-> w])
          /\ UNCHANGED << now, has_account, data, facts, marker, ledger_entries,
                          pending_log, signals, rt, loop, creditor, log_entries >>

\* Whether the transaction of worker w is one on the Creditor row that holds
\* every lock it needs to run to its end: a delete_account that deletes the
\* account has locked the rows the deletion cascades to.
holds_its_locks(w) ==
    /\ ~IsNone(txn[w])
    /\ "Creditor" \in Val(txn[w]).locks
    /\ (/\ Val(txn[w]).op = "delete_account"
        /\ has_account
        /\ deletes_the_account(data, Val(txn[w]).arg))
       => /\ "AccountData" \in Val(txn[w]).locks
          /\ marker => "PendingLedgerUpdate" \in Val(txn[w]).locks

\* ------------------------------------------------------ reading the log

\* The rows of a set of LogEntry rows, ordered by entry_id.
RECURSIVE order_by_entry_id(_)
order_by_entry_id(S) ==
    IF S = {} THEN << >>
    ELSE LET m == CHOOSE e \in S : \A g \in S : e.entry_id <= g.entry_id
         IN << m >> \o order_by_entry_id(S \ {m})

\* A variant of the page query that starts at the entry prev itself.
log_page_from_prev(rows, count, prev) ==
    LET all == order_by_entry_id({rows[i] : i \in {k \in 1 .. Len(rows) :
                                                  rows[k].entry_id >= prev}})
    IN SubSeq(all, 1, Min(count, Len(all)))

\* The LogEntry query of get_creditor_log_entries over the rows: entry_id >
\* prev, ordered by entry_id, limited to count.
log_page(rows, count, prev) ==
    LET all == order_by_entry_id({rows[i] : i \in {k \in 1 .. Len(rows) :
                                                  rows[k].entry_id > prev}})
    IN SubSeq(all, 1, Min(count, Len(all)))

\* get_creditor_log_entries(creditor_id, count, prev), its first query: the
\* creditor's last_log_entry_id is read, with no lock; for no creditor the
\* call fails.  The transaction keeps what it has seen of the log.
begin_get_creditor_log_entries(w, creditor_id, count, prev) ==
    /\ IsNone(txn[w])
    /\ IF creditor_id # C_ID
       THEN /\ ret' = Ret("get_creditor_log_entries", "CreditorDoesNotExist",
                          [creditor_id |-> creditor_id])
            /\ UNCHANGED << log_vars, now, has_account, data, facts, marker,
                            ledger_entries, pending_log, signals, rt, loop >>
       ELSE /\ txn' = [txn EXCEPT ![w] =
                   Some([op |-> "get_creditor_log_entries", arg |-> count,
                         locks |-> {},
                         read |-> [prev |-> prev,
                                   last_log_entry_id |-> creditor.last_log_entry_id,
                                   log_entries |-> log_entries]])]
            /\ ret' = Ret("begin_transaction", "get_creditor_log_entries",
                          [worker |-> w])
            /\ UNCHANGED << now, has_account, data, facts, marker, ledger_entries,
                            pending_log, signals, rt, loop, creditor, log_entries >>

\* get_creditor_log_entries, its second query and the return.  The isolation
\* level of the transaction is set outside the procedure: the query reads the
\* rows as they were at the first query (REPEATABLE READ) or as they are now
\* (READ COMMITTED).
end_get_creditor_log_entries(w) ==
    /\ ~IsNone(txn[w])
    /\ Val(txn[w]).op = "get_creditor_log_entries"
    /\ LET t == Val(txn[w])
       IN \E rows \in {t.read.log_entries, log_entries} :
              ret' = Ret("get_creditor_log_entries", "None",
                         [worker |-> w, count |-> t.arg, prev |-> t.read.prev,
                          log_entries |-> log_page(rows, t.arg, t.read.prev),
                          last_log_entry_id |-> t.read.last_log_entry_id])
    /\ txn' = [txn EXCEPT ![w] = None]
    /\ UNCHANGED << now, has_account, data, facts, marker, ledger_entries,
                    pending_log, signals, rt, loop, creditor, log_entries >>

\* ------------------------------------------------------------ the program

\* The state after create_new_account(C_ID, D_ID) at time 0.
Init ==
    /\ now = 0
    /\ has_account = TRUE
    /\ data = AccountData(0)
    /\ facts = {}
    /\ marker = FALSE
    /\ ledger_entries = << >>
    /\ pending_log = << >>
    /\ signals = << >>
    /\ rt = None
    /\ ret = Ret("create_new_account", "None", [creditor_id |-> C_ID])
    /\ loop = None
    /\ creditor = _create_new_account([creditor |-> Creditor, log |-> << >>]).creditor
    /\ log_entries = _create_new_account([creditor |-> Creditor, log |-> << >>]).log
    /\ txn = [w \in Workers |-> None]

\* An AccountUpdate message: the fields that vary, the rest as a peer sends
\* them for an account whose configuration was never changed.
AccountUpdate(creation_date, last_change_ts, last_change_seqnum, principal, last_transfer_number, last_transfer_committed_at, ts) ==
    [creation_date |-> creation_date, last_change_ts |-> last_change_ts,
     last_change_seqnum |-> last_change_seqnum, principal |-> principal,
     interest |-> 0, interest_rate |-> 0,
     last_interest_rate_change_ts |-> 0, transfer_note_max_bytes |-> 0,
     last_config_ts |-> 0, last_config_seqnum |-> 0,
     negligible_amount |-> DEFAULT_NEGLIGIBLE_AMOUNT,
     config_flags |-> DEFAULT_CONFIG_FLAGS, config_data |-> "",
     account_id |-> "acc", debtor_info_iri |-> None,
     debtor_info_content_type |-> None, debtor_info_sha256 |-> None,
     last_transfer_number |-> last_transfer_number,
     last_transfer_committed_at |-> last_transfer_committed_at,
     ts |-> ts]

\* The AccountUpdate messages of the reconciliation scenarios, sent at the
\* current time: the peer reports no transfer (change 0), and later its last
\* transfer MaxTN with the principal MAX_INT64 (change 1).
AccountUpdates ==
    {AccountUpdate(1, x[1], 0, x[3], x[2], 0, now) :
        x \in {<< 0, 0, 0 >>, << 1, MaxTN, MAX_INT64 >>}}

\* The AccountTransfer messages of the reconciliation scenarios: transfer n
\* follows transfer n - 1 (the last one may also follow n - 2), acquires 1 and
\* leaves the principal n; all are committed at time 0.
AccountTransfers ==
    {CommittedTransfer(1, x[1], x[2], 1, x[1], 0) :
        x \in {<< tn, tn - 1 >> : tn \in 1 .. MaxTN} \cup {<< MaxTN, MaxTN - 2 >>}}

Next ==
    \/ Tick
    \/ \E s \in AccountUpdates : process_account_update_signal(s, 1)
    \/ \E f \in AccountTransfers :
           process_account_transfer_signal(f, f.committed_at, MaxTime)
    \/ \E burst_count \in 1 .. MaxBurst, max_delay \in {0, MaxTime} :
           process_pending_ledger_update(burst_count, max_delay)

Spec == Init /\ [][Next]_vars

\* _update_ledger on its own: the ledger of a peer-side account stands at any
\* principal of the signed range with its entries already collected, and one
\* call moves it to any principal by any acquired amount.
InitCorrections ==
    /\ now = 0
    /\ has_account = TRUE
    /\ \E p \in Int64 :
           data = [AccountData(0) EXCEPT !.has_server_account = TRUE,
                                         !.creation_date = 1,
                                         !.ledger_principal = p]
    /\ facts = {}
    /\ marker = FALSE
    /\ ledger_entries = << >>
    /\ pending_log = << >>
    /\ signals = << >>
    /\ rt = None
    /\ ret = Ret("create_new_account", "None", [creditor_id |-> C_ID])
    /\ loop = None
    /\ creditor = _create_new_account([creditor |-> Creditor, log |-> << >>]).creditor
    /\ log_entries = _create_new_account([creditor |-> Creditor, log |-> << >>]).log
    /\ txn = [w \in Workers |-> None]

\* One call _update_ledger(data, transfer_number, acquired_amount, principal,
\* current_ts); info keeps the ledger's principal before the call and the
\* arguments.
UpdateLedger(transfer_number, acquired_amount, principal) ==
    LET u == _update_ledger(data, ledger_entries, transfer_number,
                            acquired_amount, principal, FALSE)
        call == [ledger_principal |-> data.ledger_principal,
                 acquired_amount |-> acquired_amount, principal |-> principal]
    IN /\ ret.op = "create_new_account"
       /\ IF u.assert_ok
          THEN /\ data' = u.data
               /\ ledger_entries' = u.entries
               /\ ret' = Ret("_update_ledger", "None", call)
          ELSE /\ ret' = Ret("_update_ledger", "AssertionError", call)
               /\ UNCHANGED << data, ledger_entries >>
       /\ UNCHANGED << log_vars, now, has_account, facts, marker, pending_log, signals,
                       rt, loop >>

NextCorrections ==
    \E acquired_amount \in Int64, principal \in Int64 :
        UpdateLedger(1, acquired_amount, principal)

SpecCorrections == InitCorrections /\ [][NextCorrections]_vars

\* Permanent loss: the peer reports its last transfer, first 1 (principal 1)
\* and then MaxTN (principal MaxTN), both committed at 0, and sends the first
\* and the last transfer; messages arrive only at time 0, and passes with
\* max_delay = 0 are made at any time.
LossUpdates ==
    {AccountUpdate(1, 0, 0, 1, 1, 0, now), AccountUpdate(1, 0, 1, MaxTN, MaxTN, 0, now)}

LossTransfers ==
    {CommittedTransfer(1, 1, 0, 1, 1, 0),
     CommittedTransfer(1, MaxTN, MaxTN - 1, 1, MaxTN, 0)}

PassesAlone ==
    \E burst_count \in 1 .. MaxBurst : process_pending_ledger_update(burst_count, 0)

NextLoss ==
    \/ Tick
    \/ /\ now = 0
       /\ \E s \in LossUpdates : process_account_update_signal(s, 1)
    \/ /\ now = 0
       /\ \E f \in LossTransfers :
              process_account_transfer_signal(f, f.committed_at, MaxTime)
    \/ PassesAlone

\* The scheduler calls the pass again and again.
SpecLoss == Init /\ [][NextLoss]_vars /\ WF_vars(PassesAlone)

\* A transfer and its reversal: the peer's transfer 1 acquires 1 and its
\* transfer 2 acquires -1, both committed at time 0, and its snapshot reports
\* the last transfer 2 with the principal 0.  Any of the messages may never
\* arrive; passes are made with no delay allowed or with the longest one.
NetZeroUpdates == {AccountUpdate(1, 0, 0, 0, 2, 0, now)}

NetZeroTransfers ==
    {CommittedTransfer(1, 1, 0, 1, 1, 0), CommittedTransfer(1, 2, 1, -1, 0, 0)}

NextNetZero ==
    \/ Tick
    \/ \E s \in NetZeroUpdates : process_account_update_signal(s, 1)
    \/ \E f \in NetZeroTransfers :
           process_account_transfer_signal(f, f.committed_at, MaxTime)
    \/ \E burst_count \in 1 .. MaxBurst, max_delay \in {0, MaxTime} :
           process_pending_ledger_update(burst_count, max_delay)

SpecNetZero == Init /\ [][NextNetZero]_vars

\* Two epochs of the peer-side account: the peer reports the account of the
\* creation date 1 and later a re-created one of the creation date 2, and
\* sends the first two transfers of the first epoch (each acquires 1) in any
\* order; passes allow the longest delay.
EpochUpdates == {AccountUpdate(cd, 0, 0, 0, 0, 0, now) : cd \in {1, 2}}

EpochTransfers ==
    {CommittedTransfer(1, 1, 0, 1, 1, 0), CommittedTransfer(1, 2, 1, 1, 2, 0)}

NextEpochs ==
    \/ Tick
    \/ \E s \in EpochUpdates : process_account_update_signal(s, 1)
    \/ \E f \in EpochTransfers :
           process_account_transfer_signal(f, f.committed_at, MaxTime)
    \/ \E burst_count \in 1 .. MaxBurst :
           process_pending_ledger_update(burst_count, MaxTime)

SpecEpochs == Init /\ [][NextEpochs]_vars

\* Snapshots of an account that was deleted locally: the workers delete the
\* account (with unsafe deletion allowed) and create it again, and the peer
\* goes on reporting the account, with or without the scheduled-for-deletion
\* flag and with negligible amounts below, at and above the huge one.
OrphanUpdates ==
    {[AccountUpdate(1, 0, seq, 0, 0, 0, now) EXCEPT !.config_flags = flags,
                                                    !.negligible_amount = amount] :
        seq \in {0, 1},
        flags \in {DEFAULT_CONFIG_FLAGS,
                   DEFAULT_CONFIG_FLAGS + CONFIG_SCHEDULED_FOR_DELETION_FLAG},
        amount \in HUGE_NEGLIGIBLE_AMOUNT - 1 .. HUGE_NEGLIGIBLE_AMOUNT + 1}

NextOrphans ==
    \/ Tick
    \/ \E s \in OrphanUpdates, ttl \in {0, MaxTime} :
           process_account_update_signal(s, ttl)
    \/ \E w \in Workers :
           \/ begin_transaction(w, "delete_account", 1)
           \/ begin_transaction(w, "create_new_account", 0)
           \/ end_transaction(w)

SpecOrphans == Init /\ [][NextOrphans]_vars

\* The transfer coordinator on its own: one transfer of the amount 2 to the
\* recipient "666" is initiated; the peer's replies arrive in any order, any
\* number of times, for the transfer's request (1) or another one (2), with
\* the transfer ids 1 and 2, from the transfer's creditor or another one.
NextTransfers ==
    \/ Tick
    \/ initiate_running_transfer(D_ID, 2, "666")
    \/ cancel_running_transfer
    \/ \E transfer_id \in {1, 2}, coordinator_request_id \in {1, 2} :
           process_prepared_direct_transfer_signal(
               D_ID, C_ID, transfer_id, C_ID, coordinator_request_id, 0, "666")
    \/ \E coordinator_request_id \in {1, 2}, status_code \in {"OK", "TEST_ERROR"},
          creditor_id \in {C_ID, "666"} :
           process_rejected_direct_transfer_signal(
               C_ID, coordinator_request_id, status_code, 1, D_ID, creditor_id)
    \/ \E transfer_id \in {1, 2}, committed_amount \in 0 .. 2,
          status_code \in {"OK", "TEST_ERROR"} :
           process_finalized_direct_transfer_signal(
               D_ID, C_ID, transfer_id, C_ID, 1, committed_amount, status_code, 1)

SpecTransfers == Init /\ [][NextTransfers]_vars

\* The change log on its own: transfers are initiated, canceled and deleted
\* (no reply is delivered, so that no request id is read), and the staged
\* entries are flushed for the creditor C_ID or for a creditor that does not
\* exist.
NextLog ==
    \/ Tick
    \/ initiate_running_transfer(D_ID, 2, "666")
    \/ cancel_running_transfer
    \/ delete_running_transfer
    \/ \E creditor_id \in {C_ID, "1235"} : process_pending_log_entries(creditor_id)

SpecLog == Init /\ [][NextLog]_vars

\* The writers of the log side by side: each worker runs log flushes,
\* create_new_account, delete_account (arg: the allow_unsafe_deletion column,
\* 0 or 1) and update_creditor (arg: latest_update_id) as transactions of two
\* steps, while transfers are initiated, canceled and deleted.
NextLogWriters ==
    \/ initiate_running_transfer(D_ID, 2, "666")
    \/ cancel_running_transfer
    \/ delete_running_transfer
    \/ \E w \in Workers :
           \/ begin_transaction(w, "process_pending_log_entries", 0)
           \/ begin_transaction(w, "create_new_account", 0)
           \/ \E allow_unsafe_deletion \in {0, 1} :
                  begin_transaction(w, "delete_account", allow_unsafe_deletion)
           \/ \E latest_update_id \in {1, 2} :
                  begin_transaction(w, "update_creditor", latest_update_id)
           \/ end_transaction(w)

SpecLogWriters == Init /\ [][NextLogWriters]_vars

\* The snapshot handler on its own: AccountUpdate messages of two epochs with
\* every change timestamp and sequence number, sent at any time, delivered in
\* any order, any number of times, with a ttl of 0 or MaxTime.
SnapshotUpdates ==
    {AccountUpdate(cd, lc, seq, 0, 0, 0, ts) :
        cd \in {1, 2}, lc \in {0, 1}, seq \in 0 .. 2 ^ SeqBits - 1, ts \in Times}

NextSnapshots ==
    \/ Tick
    \/ \E s \in SnapshotUpdates, ttl \in {0, MaxTime} :
           process_account_update_signal(s, ttl)

SpecSnapshots == Init /\ [][NextSnapshots]_vars

\* The configuration on its own.  The account's negligible amount is the
\* default one or one that was configured later; the peer's snapshots and
\* its rejections carry the stored config or one that differs from it in any
\* of its fields, the negligible amount being the stored one, one within the
\* relative epsilon of it, or one beyond it.
CONFIGURED_NEGLIGIBLE_AMOUNT == 200000

InitConfig ==
    /\ now = 0
    /\ has_account = TRUE
    /\ \E amount \in {DEFAULT_NEGLIGIBLE_AMOUNT, CONFIGURED_NEGLIGIBLE_AMOUNT} :
           data = [AccountData(0) EXCEPT !.negligible_amount = amount]
    /\ facts = {}
    /\ marker = FALSE
    /\ ledger_entries = << >>
    /\ pending_log = << >>
    /\ signals = << >>
    /\ rt = None
    /\ ret = Ret("create_new_account", "None", [creditor_id |-> C_ID])
    /\ loop = None
    /\ creditor = _create_new_account([creditor |-> Creditor, log |-> << >>]).creditor
    /\ log_entries = _create_new_account([creditor |-> Creditor, log |-> << >>]).log
    /\ txn = [w \in Workers |-> None]

\* The configs a message may carry in the current state.
ConfigEchoes ==
    [config_ts : 0 .. 1, config_seqnum : 0 .. 1,
     config_flags : {DEFAULT_CONFIG_FLAGS,
                     DEFAULT_CONFIG_FLAGS + CONFIG_SCHEDULED_FOR_DELETION_FLAG},
     config_data : {"", "UNEXPECTED"},
     negligible_amount : {data.negligible_amount - 1, data.negligible_amount,
                          data.negligible_amount + 3}]

NextConfig ==
    \/ \E c \in ConfigEchoes, seq \in 0 .. 2 :
           process_account_update_signal(
               [AccountUpdate(1, 0, seq, 0, 0, 0, now) EXCEPT
                    !.last_config_ts = c.config_ts,
                    !.last_config_seqnum = c.config_seqnum,
                    !.config_flags = c.config_flags,
                    !.config_data = c.config_data,
                    !.negligible_amount = c.negligible_amount], 1)
    \/ \E c \in ConfigEchoes :
           process_rejected_config_signal(
               [config_ts |-> c.config_ts, config_seqnum |-> c.config_seqnum,
                config_flags |-> c.config_flags, config_data |-> c.config_data,
                negligible_amount |-> c.negligible_amount,
                rejection_code |-> "TEST_CODE"])

SpecConfig == InitConfig /\ [][NextConfig]_vars

\* Purges: the peer reports the account of the creation date 1 or 2 with the
\* principal 1 and the interest 1, and announces that the account of the
\* creation date 1, 2 or 3 of the debtor D_ID, or of another debtor, was
\* purged; every message may arrive at any time, any number of times.
PurgeUpdates ==
    {[AccountUpdate(cd, 0, seq, 1, 0, 0, now) EXCEPT !.interest = 1] :
        cd \in {1, 2}, seq \in 0 .. 1}

NextPurges ==
    \/ \E s \in PurgeUpdates : process_account_update_signal(s, 1)
    \/ \E debtor_id \in {D_ID, "1111"}, creation_date \in 1 .. 3 :
           process_account_purge_signal(debtor_id, C_ID, creation_date)

SpecPurges == Init /\ [][NextPurges]_vars

\* The workers side by side on one account: each worker runs snapshot
\* applications, reconciliation passes and delete_account (with unsafe
\* deletion allowed) as transactions of several steps; snapshots of two epochs
\* and two transfers of the first epoch arrive, and the peer goes on reporting
\* the account after it was deleted.
WorkerUpdates == {AccountUpdate(cd, 0, 0, 0, 0, 0, now) : cd \in {1, 2}}

WorkerTransfers == {CommittedTransfer(1, tn, tn - 1, 1, tn, 0) : tn \in 1 .. 2}

NextWorkers ==
    \/ Tick
    \/ \E f \in WorkerTransfers :
           process_account_transfer_signal(f, f.committed_at, MaxTime)
    \/ \E s \in WorkerUpdates :
           ~has_account /\ process_account_update_signal(s, MaxTime)
    \/ \E w \in Workers :
           \/ \E s \in WorkerUpdates : lock_account_data_of_signal(w, s, MaxTime)
           \/ commit_account_update(w)
           \/ \E burst_count \in 1 .. MaxBurst :
                  lock_pending_ledger_update(w, burst_count, 0)
           \/ lock_account_data_of_ledger(w)
           \/ commit_pending_ledger_update(w)
           \/ begin_transaction(w, "delete_account", 1)
           \/ cascade_delete(w)
           \/ holds_its_locks(w) /\ end_transaction(w)

SpecWorkers == Init /\ [][NextWorkers]_vars

\* Readers of the log next to its writers: transfers are initiated and
\* deleted, the workers flush the staged entries and read pages of one or two
\* entries after the entry 0, 1 or 2 of the creditor C_ID or of a creditor
\* that does not exist.
NextLogReaders ==
    \/ initiate_running_transfer(D_ID, 2, "666")
    \/ delete_running_transfer
    \/ \E w \in Workers :
           \/ begin_transaction(w, "process_pending_log_entries", 0)
           \/ holds_its_locks(w) /\ end_transaction(w)
           \/ \E creditor_id \in {C_ID, "1235"}, count \in 1 .. 2, prev \in 0 .. 2 :
                  begin_get_creditor_log_entries(w, creditor_id, count, prev)
           \/ end_get_creditor_log_entries(w)

SpecLogReaders == Init /\ [][NextLogReaders]_vars

\* update_creditor next to the log flush: the workers send update requests
\* with the ids 1 to 4, any number of times and in any order, and flush the
\* entries of a transfer that is initiated and deleted.
NextUpdates ==
    \/ initiate_running_transfer(D_ID, 2, "666")
    \/ delete_running_transfer
    \/ \E w \in Workers :
           \/ \E latest_update_id \in 1 .. 4 :
                  begin_transaction(w, "update_creditor", latest_update_id)
           \/ begin_transaction(w, "process_pending_log_entries", 0)
           \/ holds_its_locks(w) /\ end_transaction(w)

SpecUpdates == Init /\ [][NextUpdates]_vars

\* The transactions that take row locks, side by side: each worker runs
\* snapshot applications, reconciliation passes, delete_account (with unsafe
\* deletion allowed), create_new_account and log flushes as transactions of
\* several steps; one snapshot and one transfer arrive.
NextLocks ==
    \/ process_account_transfer_signal(CommittedTransfer(1, 1, 0, 1, 1, 0), 0, MaxTime)
    \/ \E w \in Workers :
           \/ lock_account_data_of_signal(w, AccountUpdate(1, 0, 0, 0, 0, 0, now),
                                          MaxTime)
           \/ commit_account_update(w)
           \/ lock_pending_ledger_update(w, MaxBurst, 0)
           \/ lock_account_data_of_ledger(w)
           \/ commit_pending_ledger_update(w)
           \/ begin_transaction(w, "delete_account", 1)
           \/ cascade_delete(w)
           \/ begin_transaction(w, "create_new_account", 0)
           \/ begin_transaction(w, "process_pending_log_entries", 0)
           \/ holds_its_locks(w) /\ end_transaction(w)

SpecLocks == Init /\ [][NextLocks]_vars

\* The writers of staged entries next to the flush: a snapshot, a transfer
\* and reconciliation passes are handled, a running transfer is initiated and
\* deleted, and the workers flush the staged entries in two steps, a flush
\* committing or being rolled back; the entries of a creditor that does not
\* exist are flushed too.
NextStaging ==
    \/ process_account_update_signal(AccountUpdate(1, 0, 0, 0, 0, 0, now), MaxTime)
    \/ process_account_transfer_signal(CommittedTransfer(1, 1, 0, 1, 1, 0), 0, MaxTime)
    \/ process_pending_ledger_update(MaxBurst, 0)
    \/ initiate_running_transfer(D_ID, 2, "666")
    \/ delete_running_transfer
    \/ process_pending_log_entries("1235")
    \/ \E w \in Workers :
           \/ begin_transaction(w, "process_pending_log_entries", 0)
           \/ holds_its_locks(w) /\ end_transaction(w)
           \/ abort_transaction(w)

SpecStaging == Init /\ [][NextStaging]_vars

\* Account deletions: the account was configured with or without the
\* scheduled-for-deletion flag; the peer echoes the config in its snapshots
\* and purges its account; the workers delete the account, whatever its
\* allow_unsafe_deletion column and the pegs of the creditor's other accounts
\* are, and create it again.
InitDeletions ==
    /\ now = 0
    /\ has_account = TRUE
    /\ \E flags \in {DEFAULT_CONFIG_FLAGS,
                     DEFAULT_CONFIG_FLAGS + CONFIG_SCHEDULED_FOR_DELETION_FLAG} :
           data = [AccountData(0) EXCEPT !.config_flags = flags]
    /\ facts = {}
    /\ marker = FALSE
    /\ ledger_entries = << >>
    /\ pending_log = << >>
    /\ signals = << >>
    /\ rt = None
    /\ ret = Ret("create_new_account", "None", [creditor_id |-> C_ID])
    /\ loop = None
    /\ creditor = _create_new_account([creditor |-> Creditor, log |-> << >>]).creditor
    /\ log_entries = _create_new_account([creditor |-> Creditor, log |-> << >>]).log
    /\ txn = [w \in Workers |-> None]

NextDeletions ==
    \/ \E flags \in {DEFAULT_CONFIG_FLAGS,
                     DEFAULT_CONFIG_FLAGS + CONFIG_SCHEDULED_FOR_DELETION_FLAG},
          seq \in 0 .. 1 :
           process_account_update_signal(
               [AccountUpdate(1, 0, seq, 0, 0, 0, now) EXCEPT
                    !.config_flags = flags], 1)
    \/ process_account_purge_signal(D_ID, C_ID, 1)
    \/ \E w \in Workers :
           \/ \E arg \in 0 .. 3 : begin_transaction(w, "delete_account", arg)
           \/ begin_transaction(w, "create_new_account", 0)
           \/ end_transaction(w)

SpecDeletions == InitDeletions /\ [][NextDeletions]_vars

\* Peer-supplied values of any kind: snapshots of the epochs 0 to 2 (0 is the
\* creation date of a new row) whose sequence numbers go forwards and
\* backwards, one of them with a later change timestamp and a new
\* account_id, all reporting the transfer 2 and the greatest principal;
\* facts of both epochs that acquire the least amount and leave the greatest
\* principal (so that the principal before them, principal -
\* acquired_amount, is outside the signed range), and a fact that acquires 1
\* from the least principal, whatever the ledger's principal is.
GarbageUpdates ==
    {AccountUpdate(x[1], 0, x[2], MAX_INT64, 2, 0, now) : x \in (0 .. 2) \X (0 .. 1)}
    \cup {[AccountUpdate(1, 1, 1, MAX_INT64, 2, 0, now) EXCEPT !.account_id = "acc2"]}

GarbageTransfers ==
    {CommittedTransfer(1, 1, 0, MIN_INT64, MAX_INT64, 0),
     CommittedTransfer(1, 2, 0, 1, MIN_INT64 + 1, 0),
     CommittedTransfer(2, 1, 0, MIN_INT64, MAX_INT64, 0)}

NextGarbage ==
    \/ Tick
    \/ \E s \in GarbageUpdates : process_account_update_signal(s, MaxTime)
    \/ \E f \in GarbageTransfers :
           process_account_transfer_signal(f, f.committed_at, MaxTime)
    \/ \E max_delay \in {0, MaxTime} :
           process_pending_ledger_update(MaxBurst, max_delay)

SpecGarbage == Init /\ [][NextGarbage]_vars

\* ------------------------------------------- the routes of the transfers

\* The requests of the transfers routes.  A worker serves one request at a
\* time; txn[w] holds the request of worker w and the call it makes next.
\* The number of transfers that inspect_ops records for the creditor is kept
\* with the creditor's row here, as transfers_count; each call of inspect_ops
\* is one step of its own, outside the transaction of the procedure that the
\* route calls before or after it.

\* The deficit at which no further DELETE request is taken.
MaxDeficit == 3

\* The Creditor row with the recorded number of transfers of a creditor who
\* has no transfer.
CreditorWithTransfersCount == Creditor @@ [transfers_count |-> 0]

\* inspect_ops.register_transfer_creation(creditorId, debtorId).
register_transfer_creation(c) == [c EXCEPT !.transfers_count = @ + 1]

\* inspect_ops.increment_transfer_number(creditorId, transferUuid).
increment_transfer_number(c) == [c EXCEPT !.transfers_count = @ + 1]

\* inspect_ops.decrement_transfer_number(creditorId, transferUuid).
decrement_transfer_number(c) == [c EXCEPT !.transfers_count = @ - 1]

\* The request of a route and the call it makes next.
Request(op, pc) == [op |-> op, pc |-> pc]

\* A variant of the DELETE route that increments the number after every
\* deletion.
delete_always_increments(result) == "increment_transfer_number"

\* TransferEndpoint.delete, after procedures.delete_running_transfer: the
\* number is incremented again only on TransferDoesNotExist; otherwise the
\* route returns 204.
delete_after_deletion(result) ==
    IF result = "TransferDoesNotExist" THEN "increment_transfer_number" ELSE "204"

\* TransfersEndpoint.post, after procedures.initiate_running_transfer: on
\* TransferExists the route redirects (303) before it registers anything.
post_after_initiation(result) ==
    IF result = "TransferExists" THEN "303" ELSE "register_transfer_creation"

\* TransfersEndpoint.post, up to the call of initiate_running_transfer:
\* inspect_ops.allow_transfer_creation and verify_pin_value either let the
\* request through (allowed) or raise, and the route aborts with 403.
post_allow(w, allowed) ==
    /\ IsNone(txn[w])
    /\ txn' = [txn EXCEPT ![w] =
           IF allowed
           THEN Some(Request("TransfersEndpoint.post", "initiate_running_transfer"))
           ELSE None]
    /\ ret' = Ret("TransfersEndpoint.post",
                  IF allowed THEN "allow_transfer_creation" ELSE "403",
                  [worker |-> w])
    /\ UNCHANGED << now, has_account, data, facts, marker, ledger_entries,
                    pending_log, signals, rt, loop, creditor, log_entries >>

\* TransfersEndpoint.post, the call of initiate_running_transfer (one
\* transaction).
post_initiate(w, debtor_id, amount, recipient) ==
    /\ txn[w] = Some(Request("TransfersEndpoint.post", "initiate_running_transfer"))
    /\ LET r == RunningTransfer(debtor_id, amount, recipient)
           result == IF ~IsNone(rt) THEN "TransferExists" ELSE "None"
           next == post_after_initiation(result)
       IN /\ IF result = "TransferExists"
             THEN UNCHANGED << rt, signals, pending_log >>
             ELSE /\ Len(pending_log) < MaxLog
                  /\ Len(signals) < MaxSignals
                  /\ rt' = Some(r)
                  /\ signals' = Append(signals,
                         [type |-> "PrepareTransferSignal", creditor_id |-> C_ID,
                          debtor_id |-> debtor_id,
                          coordinator_request_id |-> r.coordinator_request_id,
                          recipient |-> recipient,
                          locked_amount |-> r.locked_amount])
                  /\ pending_log' = Append(pending_log,
                         [object_type_hint |-> OTH_TRANSFER,
                          object_update_id |-> r.latest_update_id,
                          is_created |-> TRUE])
          /\ txn' = [txn EXCEPT ![w] =
                 IF next = "303" THEN None
                 ELSE Some(Request("TransfersEndpoint.post", next))]
          /\ ret' = Ret("TransfersEndpoint.post",
                        IF next = "303" THEN "303" ELSE "initiate_running_transfer",
                        [worker |-> w])
    /\ UNCHANGED << now, has_account, data, facts, marker, ledger_entries,
                    loop, creditor, log_entries >>

\* TransfersEndpoint.post, its last call: the creation is registered and the
\* transfer is returned.
post_register(w) ==
    /\ txn[w] = Some(Request("TransfersEndpoint.post", "register_transfer_creation"))
    /\ creditor' = register_transfer_creation(creditor)
    /\ txn' = [txn EXCEPT ![w] = None]
    /\ ret' = Ret("TransfersEndpoint.post", "201", [worker |-> w])
    /\ UNCHANGED << now, has_account, data, facts, marker, ledger_entries,
                    pending_log, signals, rt, loop, log_entries >>

\* TransferEndpoint.delete, its first call: the number is decremented.
delete_decrement(w) ==
    /\ IsNone(txn[w])
    /\ creditor.transfers_count > 0 - MaxDeficit
    /\ creditor' = decrement_transfer_number(creditor)
    /\ txn' = [txn EXCEPT ![w] =
           Some(Request("TransferEndpoint.delete", "delete_running_transfer"))]
    /\ ret' = Ret("TransferEndpoint.delete", "decrement_transfer_number",
                  [worker |-> w])
    /\ UNCHANGED << now, has_account, data, facts, marker, ledger_entries,
                    pending_log, signals, rt, loop, log_entries >>

\* TransferEndpoint.delete, the call of delete_running_transfer (one
\* transaction).
delete_delete(w) ==
    /\ txn[w] = Some(Request("TransferEndpoint.delete", "delete_running_transfer"))
    /\ LET result == IF IsNone(rt) THEN "TransferDoesNotExist" ELSE "None"
           next == delete_after_deletion(result)
       IN /\ IF result = "TransferDoesNotExist"
             THEN UNCHANGED << rt, pending_log >>
             ELSE /\ Len(pending_log) < MaxLog
                  /\ rt' = None
                  /\ pending_log' = Append(pending_log,
                         [object_type_hint |-> OTH_TRANSFER, is_deleted |-> TRUE])
          /\ txn' = [txn EXCEPT ![w] =
                 IF next = "204" THEN None
                 ELSE Some(Request("TransferEndpoint.delete", next))]
          /\ ret' = Ret("TransferEndpoint.delete",
                        IF next = "204" THEN "204" ELSE result,
                        [worker |-> w])
    /\ UNCHANGED << now, has_account, data, facts, marker, ledger_entries,
                    signals, loop, creditor, log_entries >>

\* TransferEndpoint.delete, the handler of TransferDoesNotExist: the number
\* is incremented again, and the route returns 204.
delete_increment(w) ==
    /\ txn[w] = Some(Request("TransferEndpoint.delete", "increment_transfer_number"))
    /\ creditor' = increment_transfer_number(creditor)
    /\ txn' = [txn EXCEPT ![w] = None]
    /\ ret' = Ret("TransferEndpoint.delete", "204", [worker |-> w])
    /\ UNCHANGED << now, has_account, data, facts, marker, ledger_entries,
                    pending_log, signals, rt, loop, log_entries >>

\* The worker dies between two calls of the route it serves: the request is
\* gone, what its calls have done stays.
crash(w) ==
    /\ ~IsNone(txn[w])
    /\ txn' = [txn EXCEPT ![w] = None]
    /\ ret' = Ret("crash", Val(txn[w]).pc, [worker |-> w])
    /\ UNCHANGED << now, has_account, data, facts, marker, ledger_entries,
                    pending_log, signals, rt, loop, creditor, log_entries >>

\* The creditor has no transfer, and none is recorded.
InitRoutes ==
    /\ now = 0
    /\ has_account = TRUE
    /\ data = AccountData(0)
    /\ facts = {}
    /\ marker = FALSE
    /\ ledger_entries = << >>
    /\ pending_log = << >>
    /\ signals = << >>
    /\ rt = None
    /\ ret = Ret("create_new_account", "None", [creditor_id |-> C_ID])
    /\ loop = None
    /\ creditor = CreditorWithTransfersCount
    /\ log_entries = << >>
    /\ txn = [w \in Workers |-> None]

\* Two workers serve POST and DELETE requests for the transfer TEST_UUID, in
\* any interleaving of their calls, and die at any point.
NextRoutes ==
    \E w \in Workers :
        \/ \E allowed \in BOOLEAN : post_allow(w, allowed)
        \/ post_initiate(w, D_ID, 2, "666")
        \/ post_register(w)
        \/ delete_decrement(w)
        \/ delete_delete(w)
        \/ delete_increment(w)
        \/ crash(w)

SpecRoutes == InitRoutes /\ [][NextRoutes]_vars

\* The snapshot handler with interest rates: AccountUpdate messages of one
\* epoch with every sequence number and with a negative, a zero and a
\* positive interest rate, sent at the current time, delivered in any order,
\* any number of times.
InterestRates == {-1, 0, 1}

InterestUpdates ==
    {[AccountUpdate(1, 0, seq, 0, 0, 0, now) EXCEPT !.interest_rate = rate] :
        seq \in 0 .. 2 ^ SeqBits - 1, rate \in InterestRates}

NextInterest ==
    \/ Tick
    \/ \E s \in InterestUpdates : process_account_update_signal(s, MaxTime)

SpecInterest == Init /\ [][NextInterest]_vars

\* The writers of one object's entries side by side: the workers apply a
\* snapshot to the account as a transaction of several steps, the first
\* worker runs the reconciliation passes and the second one the flushes of
\* the staged entries, each in several steps; a transfer arrives, and the
\* running transfer is initiated, canceled, deleted and initiated again under
\* the same uuid.
NextOrdering ==
    \/ process_account_transfer_signal(CommittedTransfer(1, 1, 0, 1, 1, 0), 0, MaxTime)
    \/ initiate_running_transfer(D_ID, 2, "666")
    \/ cancel_running_transfer
    \/ delete_running_transfer
    \/ lock_pending_ledger_update("w1", MaxBurst, 0)
    \/ lock_account_data_of_ledger("w1")
    \/ commit_pending_ledger_update("w1")
    \/ begin_transaction("w2", "process_pending_log_entries", 0)
    \/ holds_its_locks("w2") /\ end_transaction("w2")
    \/ \E w \in Workers :
           \/ lock_account_data_of_signal(w, AccountUpdate(1, 0, 0, 0, 0, 0, now),
                                          MaxTime)
           \/ commit_account_update(w)

SpecOrdering == Init /\ [][NextOrdering]_vars

\* ------------------------------------------------------------ properties

\* The retry loop over process_pending_ledger_update has ended: the last call
\* was a pass that returned True, and the loop started from a gapless chain.
LoopDrained ==
    /\ ret.op = "process_pending_ledger_update"
    /\ ret.result = "True"
    /\ ~IsNone(loop)

LedgerAt(transfer_number, principal) ==
    /\ data.ledger_last_transfer_number = transfer_number
    /\ data.ledger_principal = principal

\* The peer's snapshot reports a transfer after the chain's last one, and that
\* transfer was committed before the cutoff of the last pass.
LastTransferMissingAndOld ==
    /\ data.last_transfer_number > Val(loop).transfer_number
    /\ data.last_transfer_committed_at < ret.info.committed_at_cutoff

\* C1 (as stated): for a gapless chain of pending facts, once
\* process_pending_ledger_update has been repeated until it returned True, the
\* ledger's principal and last transfer number are those of the chain's last
\* fact.
C1_LedgerAtLastFact ==
    LoopDrained => LedgerAt(Val(loop).transfer_number, Val(loop).principal)

\* C1 (amended): for a gapless chain of pending facts, once the pass has been
\* repeated until it returned True, the ledger is at the chain's last fact,
\* unless the snapshot reports a later transfer that is older than the cutoff:
\* then the last pass has moved the ledger on to the peer-reported
\* (last_transfer_number, principal).
C1_LedgerAtLastFactOrHealed ==
    LoopDrained =>
        IF LastTransferMissingAndOld
        THEN LedgerAt(data.last_transfer_number, data.principal)
        ELSE LedgerAt(Val(loop).transfer_number, Val(loop).principal)

\* A chain of two facts was applied by a loop of passes and the ledger rests
\* at its last fact.
C1_Witness ==
    /\ LoopDrained
    /\ ~LastTransferMissingAndOld
    /\ Val(loop).transfer_number >= 2
    /\ Len(ledger_entries) >= 2
    /\ LedgerAt(Val(loop).transfer_number, Val(loop).principal)

\* C2 (as stated): in every reachable state ledger_last_transfer_number is at
\* most the last_transfer_number of the latest applied snapshot.
C2_LedgerNotAheadOfSnapshot ==
    data.ledger_last_transfer_number <= data.last_transfer_number

\* C2 (amended): the ledger records only transfer numbers the peer has
\* reported, by a fact or by a snapshot: whenever ledger_last_transfer_number
\* changes, its new value is 0 (a new epoch), the transfer_number of a stored
\* fact of the current epoch, or the snapshot's last_transfer_number.
C2_LedgerRecordsReportedNumbers ==
    [][data'.ledger_last_transfer_number # data.ledger_last_transfer_number =>
          \/ data'.ledger_last_transfer_number = 0
          \/ data'.ledger_last_transfer_number = data'.last_transfer_number
          \/ \E f \in facts' :
                 /\ f.creation_date = data'.creation_date
                 /\ f.transfer_number = data'.ledger_last_transfer_number]_vars

\* A pass has moved the ledger to the transfer number of a stored fact while
\* the snapshot reports another number.
C2_Witness ==
    /\ ret.op = "process_pending_ledger_update"
    /\ data.ledger_last_transfer_number > 0
    /\ data.ledger_last_transfer_number # data.last_transfer_number
    /\ \E f \in facts : /\ f.creation_date = data.creation_date
                        /\ f.transfer_number = data.ledger_last_transfer_number

\* The step is a call of the handler op: a handler records itself in ret and
\* leaves the clock alone, and only Tick moves the clock.
Called(op) == ret'.op = op /\ now' = now

\* The facts a pass with the given burst_count fetches in the current state.
Fetched(burst_count) ==
    LET all == order_by_transfer_number(
                   {f \in facts : /\ f.creation_date = data.creation_date
                                  /\ f.transfer_number > data.ledger_last_transfer_number})
    IN SubSeq(all, 1, Min(burst_count, Len(all)))

\* The i-th of the fetched facts does not follow the one before it (the
\* ledger's last transfer for the first) and is not older than the cutoff.
IsYoungGap(fetched, i, cutoff) ==
    /\ fetched[i].previous_transfer_number #
           (IF i = 1 THEN data.ledger_last_transfer_number
            ELSE fetched[i - 1].transfer_number)
    /\ fetched[i].committed_at >= cutoff

\* The step is a pass, made with the marker present, that meets a young gap
\* at the i-th fetched fact.
PassMeetsYoungGap(i) ==
    /\ Called("process_pending_ledger_update")
    /\ ret'.result # "AssertionError"
    /\ marker
    /\ LET fetched == Fetched(ret'.info.burst_count)
       IN /\ i \in 1 .. Len(fetched)
          /\ IsYoungGap(fetched, i, ret'.info.committed_at_cutoff)
          /\ \A j \in 1 .. i - 1 : ~IsYoungGap(fetched, j, ret'.info.committed_at_cutoff)

\* What a pass that meets a young gap at the i-th fetched fact does to the
\* ledger: it records the fact's committed_at as ledger_pending_transfer_ts
\* and applies neither that fact nor any later one.
StopsAtYoungGap(i) ==
    LET fetched == Fetched(ret'.info.burst_count)
    IN /\ data'.ledger_pending_transfer_ts = Some(fetched[i].committed_at)
       /\ data'.ledger_last_transfer_number =
              (IF i = 1 THEN data.ledger_last_transfer_number
               ELSE fetched[i - 1].transfer_number)
       /\ \A k \in 1 .. Len(ledger_entries') :
              \/ IsNone(ledger_entries'[k].transfer_number)
              \/ k <= Len(ledger_entries)
              \/ Val(ledger_entries'[k].transfer_number) < fetched[i].transfer_number

\* C4 (as stated): a pass that meets a young gap sets
\* ledger_pending_transfer_ts to the fact's committed_at, applies neither that
\* fact nor any later one, returns False and leaves the marker in place.
C4_YoungGapKeepsMarker ==
    [][\A i \in 1 .. MaxBurst :
           PassMeetsYoungGap(i) =>
               /\ StopsAtYoungGap(i)
               /\ ret'.result = "False"
               /\ marker']_vars

\* C4 (amended): a pass that meets a young gap sets
\* ledger_pending_transfer_ts to the fact's committed_at, applies neither that
\* fact nor any later one, returns True and deletes the marker.
C4_YoungGapEndsLoop ==
    [][\A i \in 1 .. MaxBurst :
           PassMeetsYoungGap(i) =>
               /\ StopsAtYoungGap(i)
               /\ ret'.result = "True"
               /\ ~marker']_vars

\* A pass has stopped at a young gap: the ledger waits for a transfer and a
\* fact that does not follow the ledger's last transfer is stored.
C4_Witness ==
    /\ ret.op = "process_pending_ledger_update"
    /\ ~IsNone(data.ledger_pending_transfer_ts)
    /\ \E f \in facts :
           /\ f.creation_date = data.creation_date
           /\ f.transfer_number > data.ledger_last_transfer_number
           /\ f.previous_transfer_number # data.ledger_last_transfer_number
           /\ f.committed_at >= ret.info.committed_at_cutoff

\* C5: delivering a committed-transfer fact whose key is already stored
\* changes nothing: the stored facts, the ledger, the staged log entries and
\* the outbound signals stay as they are and no marker is created.
C5_DuplicateFactIsNoOp ==
    [][(/\ Called("process_account_transfer_signal")
        /\ \E g \in facts : /\ g.creation_date = ret'.info.creation_date
                            /\ g.transfer_number = ret'.info.transfer_number)
       => UNCHANGED << has_account, data, facts, marker, ledger_entries,
                       pending_log, signals >>]_vars

\* A fact was delivered again after the pass had applied it and deleted the
\* marker.
C5_Witness ==
    /\ ret.op = "process_account_transfer_signal"
    /\ ret.result = "duplicate"
    /\ ~marker
    /\ data.ledger_last_transfer_number = ret.info.transfer_number

\* The step delivers a snapshot whose ordering key is equal to or older than
\* the stored one.
StaleSnapshotDelivered ==
    /\ Called("process_account_update_signal")
    /\ has_account
    /\ event_le(ret'.info.creation_date, ret'.info.last_change_ts,
                ret'.info.last_change_seqnum,
                data.creation_date, data.last_change_ts, data.last_change_seqnum)

\* C6 (as stated): delivering a snapshot whose ordering key is equal to or
\* older than the stored key changes no state at all, last_heartbeat_ts
\* included, whatever its ts is.
C6_StaleSnapshotChangesNothing ==
    [][StaleSnapshotDelivered =>
           UNCHANGED << has_account, data, facts, marker, ledger_entries,
                        pending_log, signals >>]_vars

\* C6 (amended): delivering a snapshot whose ordering key is equal to or older
\* than the stored key changes nothing but last_heartbeat_ts, which becomes
\* min(ts, now) when the signal is within its ttl and ts is later than the
\* stored heartbeat.
C6_StaleSnapshotChangesHeartbeatOnly ==
    [][StaleSnapshotDelivered =>
           /\ UNCHANGED << has_account, facts, marker, ledger_entries,
                           pending_log, signals >>
           /\ data' = [data EXCEPT !.last_heartbeat_ts =
                          IF now - ret'.info.ts <= ret'.info.ttl /\ ret'.info.ts > @
                          THEN Min(ret'.info.ts, now) ELSE @]]_vars

\* A snapshot of an older epoch was delivered and its ts is the stored
\* heartbeat.
C6_Witness ==
    /\ ret.op = "process_account_update_signal"
    /\ ret.result = "stale"
    /\ ret.info.creation_date < data.creation_date
    /\ ret.info.ts > 0
    /\ data.last_heartbeat_ts = ret.info.ts

RECURSIVE SumAcquired(_)
SumAcquired(entries) ==
    IF entries = << >> THEN 0
    ELSE Head(entries).acquired_amount + SumAcquired(Tail(entries))

\* The correction entries among the LedgerEntry rows: those of no transfer.
Corrections == SelectSeq(ledger_entries, LAMBDA e : IsNone(e.transfer_number))

\* C7: every LedgerEntry has acquired_amount and principal within the signed
\* range; when the previous principal of an update (principal -
\* acquired_amount) is in the range and differs from the ledger's principal,
\* the acquired amounts of the correction entries sum exactly to the
\* difference, and a difference of a magnitude greater than MAX_INT64 is
\* recorded as two or more entries, none greater than MAX_INT64 in magnitude.
C7_EntriesWithinInt64 ==
    /\ \A k \in 1 .. Len(ledger_entries) :
           /\ ledger_entries[k].acquired_amount \in Int64
           /\ ledger_entries[k].principal \in Int64
           /\ ledger_entries[k].entry_id = k
    /\ (ret.op = "_update_ledger" /\ ret.result = "None"
        /\ ret.info.principal - ret.info.acquired_amount \in Int64) =>
           LET delta == (ret.info.principal - ret.info.acquired_amount)
                            - ret.info.ledger_principal
           IN /\ SumAcquired(Corrections) = delta
              /\ \A k \in 1 .. Len(Corrections) :
                     /\ Abs(Corrections[k].acquired_amount) <= MAX_INT64
                     /\ Corrections[k].principal =
                            ret.info.ledger_principal
                                + SumAcquired(SubSeq(Corrections, 1, k))
              /\ Abs(delta) > MAX_INT64 => Len(Corrections) >= 2

\* A correction of a magnitude greater than MAX_INT64 was recorded, as three
\* entries.
C7_Witness ==
    /\ ret.op = "_update_ledger"
    /\ ret.info.principal - ret.info.acquired_amount \in Int64
    /\ Abs((ret.info.principal - ret.info.acquired_amount)
               - ret.info.ledger_principal) > MAX_INT64
    /\ Len(Corrections) = 3

\* The transfer exists and its finalized_at is not set.
TransferIsOpen == ~IsNone(rt) /\ IsNone(Val(rt).finalized_at)

\* The step delivers a reply of the peer, or a cancel request.
ReplyOrCancel ==
    /\ now' = now
    /\ ret'.op \in {"process_prepared_direct_transfer_signal",
                    "process_rejected_direct_transfer_signal",
                    "process_finalized_direct_transfer_signal",
                    "cancel_running_transfer"}

\* C8: once finalized_at is set, no TransferPrepared, TransferRejected or
\* TransferFinalized reply and no cancel request changes the RunningTransfer
\* (finalized_at, error_code, total_locked_amount, transfer_id and
\* latest_update_id included) or stages a log entry.
C8_FinalizationIsTerminal ==
    [][(/\ ~IsNone(rt)
        /\ ~IsNone(Val(rt).finalized_at)
        /\ ReplyOrCancel)
       => /\ rt' = rt
          /\ pending_log' = pending_log]_vars

\* A TransferRejected reply for the transfer's request was delivered, and the
\* transfer stays finalized as a success.
C8_Witness ==
    /\ ret.op = "process_rejected_direct_transfer_signal"
    /\ ~IsNone(rt)
    /\ ret.info.coordinator_request_id = Val(rt).coordinator_request_id
    /\ ret.info.creditor_id = Val(rt).creditor_id
    /\ ~IsNone(Val(rt).finalized_at)
    /\ IsNone(Val(rt).error_code)

\* The step delivers a TransferFinalized reply that correlates to the open,
\* prepared transfer.
FinalizedReplyCorrelates ==
    /\ Called("process_finalized_direct_transfer_signal")
    /\ TransferIsOpen
    /\ ret'.info.coordinator_id = Val(rt).creditor_id
    /\ ret'.info.coordinator_request_id = Val(rt).coordinator_request_id
    /\ ret'.info.creditor_id = Val(rt).creditor_id
    /\ ret'.info.debtor_id = Val(rt).debtor_id
    /\ Val(rt).transfer_id = Some(ret'.info.transfer_id)

\* C9: a TransferFinalized reply that correlates to a prepared, not finalized
\* transfer and reports the status OK with the requested amount committed
\* finalizes the transfer as a success: finalized_at is set, error_code and
\* total_locked_amount stay null, whatever total_locked_amount the reply has.
C9_FinalizedAsSuccess ==
    [][(/\ FinalizedReplyCorrelates
        /\ ret'.info.status_code = "OK"
        /\ ret'.info.committed_amount = Val(rt).amount)
       => /\ ~IsNone(rt')
          /\ ~IsNone(Val(rt').finalized_at)
          /\ IsNone(Val(rt').error_code)
          /\ IsNone(Val(rt').total_locked_amount)
          /\ Val(rt').transfer_id = Val(rt).transfer_id]_vars

\* The transfer was finalized as a success by a reply that has a non-zero
\* total_locked_amount.
C9_Witness ==
    /\ ret.op = "process_finalized_direct_transfer_signal"
    /\ ret.info.status_code = "OK"
    /\ ret.info.total_locked_amount > 0
    /\ ~IsNone(rt)
    /\ ret.info.committed_amount = Val(rt).amount
    /\ Val(rt).transfer_id = Some(ret.info.transfer_id)
    /\ Val(rt).finalized_at = Some(now)
    /\ IsNone(Val(rt).error_code)
    /\ IsNone(Val(rt).total_locked_amount)

\* The step delivers a TransferRejected reply that correlates to the open
\* transfer by its request id and names another creditor or debtor.
MismatchedRejectedReply ==
    /\ Called("process_rejected_direct_transfer_signal")
    /\ TransferIsOpen
    /\ ret'.info.coordinator_id = Val(rt).creditor_id
    /\ ret'.info.coordinator_request_id = Val(rt).coordinator_request_id
    /\ \/ ret'.info.creditor_id # Val(rt).creditor_id
       \/ ret'.info.debtor_id # Val(rt).debtor_id

\* The step delivers a TransferFinalized reply that correlates to the open,
\* prepared transfer and whose (committed_amount, status) is neither
\* (requested amount, OK) nor (0, not OK).
InconsistentFinalizedReply ==
    /\ FinalizedReplyCorrelates
    /\ ~(ret'.info.status_code = "OK"
         /\ ret'.info.committed_amount = Val(rt).amount)
    /\ ~(ret'.info.status_code # "OK" /\ ret'.info.committed_amount = 0)

\* C10: an inconsistent reply that correlates to an open transfer finalizes
\* it with the error code UNEXPECTED_ERROR and a null total_locked_amount, and
\* the handler returns normally.
C10_InconsistentReplyIsUnexpectedError ==
    [][(MismatchedRejectedReply \/ InconsistentFinalizedReply)
       => /\ ~IsNone(rt')
          /\ ~IsNone(Val(rt').finalized_at)
          /\ Val(rt').error_code = Some("UNEXPECTED_ERROR")
          /\ IsNone(Val(rt').total_locked_amount)
          /\ ret'.result = "None"]_vars

\* A TransferFinalized reply with the status OK and less than the requested
\* amount committed has finalized the transfer as an unexpected error.
C10_Witness ==
    /\ ret.op = "process_finalized_direct_transfer_signal"
    /\ ret.info.status_code = "OK"
    /\ ~IsNone(rt)
    /\ ret.info.committed_amount < Val(rt).amount
    /\ Val(rt).finalized_at = Some(now)
    /\ Val(rt).error_code = Some("UNEXPECTED_ERROR")
    /\ IsNone(Val(rt).total_locked_amount)

\* The ledger is behind the peer-reported last transfer, everything the peer
\* has committed is older than the cutoff of a pass with max_delay = 0, and
\* nothing arrives any more.
BehindAnOldGap ==
    /\ now >= 1
    /\ data.ledger_last_transfer_number < data.last_transfer_number
    /\ data.last_transfer_committed_at < now
    /\ \A f \in facts : f.committed_at < now

\* The stored facts of the current epoch agree with the snapshot: none is
\* later than the peer-reported last transfer, and that transfer's fact has
\* the peer-reported principal.
SnapshotInStep ==
    \A f \in facts :
        f.creation_date = data.creation_date =>
            /\ f.transfer_number <= data.last_transfer_number
            /\ f.transfer_number = data.last_transfer_number =>
                   f.principal = data.principal

\* The last pass returned True, the ledger is at the peer-reported
\* (last_transfer_number, principal), and the acquired amounts of the entries
\* add up to the principal: the corrections sum exactly to the jumps.
DrainedAtPeerReport ==
    /\ ret.op = "process_pending_ledger_update"
    /\ ret.result = "True"
    /\ LedgerAt(data.last_transfer_number, data.principal)
    /\ SumAcquired(ledger_entries) = data.ledger_principal

\* C3 (as stated): when the ledger is behind because of a gap older than
\* max_delay and the missing fact never arrives, repeated passes alone
\* eventually return True with the ledger at the peer-reported
\* (last_transfer_number, principal), the corrections summing to the jump.
C3_PassesAloneConverge ==
    BehindAnOldGap ~> DrainedAtPeerReport

\* C3 (amended): when the ledger is behind because of a gap older than
\* max_delay, the missing fact never arrives, the PendingLedgerUpdate marker
\* of the account exists and the stored facts agree with the snapshot,
\* repeated passes eventually return True with the ledger at the
\* peer-reported (last_transfer_number, principal), the corrections summing
\* to the jump.
C3_MarkedAccountConverges ==
    (BehindAnOldGap /\ marker /\ SnapshotInStep) ~> DrainedAtPeerReport

\* After the loss, passes have brought the ledger of a marked account to the
\* peer-reported state with a correction entry.
C3_Witness ==
    /\ now >= 1
    /\ DrainedAtPeerReport
    /\ data.last_transfer_number = MaxTN
    /\ ~marker
    /\ \E k \in 1 .. Len(ledger_entries) : IsNone(ledger_entries[k].transfer_number)

\* A staged entry that tells of the creation or of the deletion of a transfer.
TransferCreationOrDeletion(entry) ==
    /\ entry.object_type_hint = "Transfer"
    /\ \/ "is_created" \in DOMAIN entry /\ entry.is_created
       \/ "is_deleted" \in DOMAIN entry /\ entry.is_deleted

\* The LogEntry rows that the step appends.
Appended == SubSeq(log_entries', Len(log_entries) + 1, Len(log_entries'))

\* The rows of a sequence of LogEntry rows that were copied from staged
\* entries, as the staged entries.
Originals(rows) ==
    LET copied == SelectSeq(rows, LAMBDA e : ~IsNone(e.pending))
    IN [i \in 1 .. Len(copied) |-> Val(copied[i].pending)]

\* C11: one call of process_pending_log_entries for the creditor, with N
\* staged entries of which k tell of a transfer's creation or deletion,
\* appends exactly N + k LogEntry rows: the N originals in the order of the
\* staged entries, with strictly increasing entry ids beyond the ids used
\* before, each creation/deletion entry immediately followed by one
\* transfer-list entry; transfer_list_latest_update_id grows by exactly k and
\* no staged entry remains.
C11_FlushAppendsOriginalsAndListEntries ==
    [][Called("process_pending_log_entries") /\ ret'.info.creditor_id = C_ID =>
          LET N == Len(pending_log)
              k == Cardinality({i \in 1 .. N :
                                   TransferCreationOrDeletion(pending_log[i])})
              new == Appended
          IN /\ Len(log_entries') = Len(log_entries) + N + k
             /\ Originals(new) = pending_log
             /\ \A i \in 1 .. Len(new) :
                    /\ new[i].entry_id > creditor.last_log_entry_id
                    /\ \A j \in 1 .. Len(new) :
                           i < j => new[i].entry_id < new[j].entry_id
                    /\ \A e \in {log_entries[j] : j \in 1 .. Len(log_entries)} :
                           e.entry_id < new[i].entry_id
             /\ \A i \in 1 .. Len(new) :
                    (~IsNone(new[i].pending)
                     /\ TransferCreationOrDeletion(Val(new[i].pending))) =>
                        /\ i < Len(new)
                        /\ new[i + 1].object_type = "TransferList"
                        /\ IsNone(new[i + 1].pending)
                        /\ new[i + 1].object_update_id =
                               Some(creditor'.transfer_list_latest_update_id
                                    - Cardinality({j \in i + 1 .. Len(new) :
                                          ~IsNone(new[j].pending)
                                          /\ TransferCreationOrDeletion(
                                                 Val(new[j].pending))}))
             /\ creditor'.transfer_list_latest_update_id =
                    creditor.transfer_list_latest_update_id + k
             /\ pending_log' = << >>]_vars

\* A flush of two or more staged entries, one of them the deletion of a
\* transfer, has appended the originals and the transfer-list entries.
C11_Witness ==
    /\ ret.op = "process_pending_log_entries"
    /\ ret.info.creditor_id = C_ID
    /\ Len(ret.info.pending) >= 2
    /\ \E i \in 1 .. Len(ret.info.pending) :
           /\ "is_deleted" \in DOMAIN ret.info.pending[i]
           /\ ret.info.pending[i].is_deleted
    /\ \E i \in 1 .. Len(ret.info.pending) :
           ~TransferCreationOrDeletion(ret.info.pending[i])
    /\ pending_log = << >>
    /\ Len(log_entries) >= Len(ret.info.pending) + 3
    /\ log_entries[Len(log_entries)].entry_id = creditor.last_log_entry_id

\* The entry ids of the LogEntry rows of the creditor.
LogEntryIds == {log_entries[i].entry_id : i \in 1 .. Len(log_entries)}

\* C12: under any interleaving of log flushes and direct log writers
\* (create_new_account, delete_account, update_creditor) the entry ids of the
\* creditor's LogEntry rows are unique and are exactly the range
\* 1 .. last_log_entry_id: no id is assigned twice and none is skipped.
C12_LogEntryIdsUniqueAndGapFree ==
    /\ Cardinality(LogEntryIds) = Len(log_entries)
    /\ LogEntryIds = 1 .. creditor.last_log_entry_id

\* A flush has its transaction open while an entry was staged after it read
\* the staged entries, and the log holds rows of an earlier flush, of
\* update_creditor and of delete_account.
C12_Witness ==
    /\ \E w \in Workers :
           /\ ~IsNone(txn[w])
           /\ Val(txn[w]).op = "process_pending_log_entries"
           /\ Len(Val(txn[w]).pending) >= 1
           /\ Len(pending_log) > Len(Val(txn[w]).pending)
    /\ \E i \in 1 .. Len(log_entries) : log_entries[i].object_type = "TransferList"
    /\ \E i \in 1 .. Len(log_entries) : log_entries[i].object_type = "Creditor"
    /\ \E i \in 1 .. Len(log_entries) : log_entries[i].is_deleted

\* The RunningTransfer the reply of the step is correlated with (an optional
\* value), looked up before the step.
Correlated == _find_running_transfer(ret'.info.coordinator_id, ret'.info.coordinator_request_id)

\* C13: cancel_running_transfer on a transfer whose transfer_id is set fails
\* with ForbiddenTransferCancellation and changes neither the RunningTransfer
\* nor the staged log entries nor the signals; a TransferFinalized reply for
\* the recorded transfer_id that then arrives finalizes the transfer.
C13_PreparedTransferCannotBeCanceled ==
    [][/\ (Called("cancel_running_transfer") /\ ~IsNone(rt)
            /\ ~IsNone(Val(rt).transfer_id))
           => /\ ret'.result = "ForbiddenTransferCancellation"
              /\ UNCHANGED << rt, pending_log, signals >>
       /\ (Called("process_finalized_direct_transfer_signal") /\ ~IsNone(rt)
            /\ IsNone(Val(rt).finalized_at)
            /\ Val(rt).transfer_id = Some(ret'.info.transfer_id)
            /\ ~IsNone(Correlated))
           => /\ Val(rt').finalized_at = Some(now)
              /\ Val(rt').transfer_id = Val(rt).transfer_id]_vars

\* A cancellation has just failed on a prepared transfer that is not
\* finalized.
C13_Witness ==
    /\ ret.op = "cancel_running_transfer"
    /\ ret.result = "ForbiddenTransferCancellation"
    /\ ~IsNone(rt)
    /\ Val(rt).transfer_id = Some(1)
    /\ IsNone(Val(rt).finalized_at)
    /\ IsNone(Val(rt).error_code)

C15_MatchingPreparedIsCommittedInFull ==
    [][(/\ Called("process_prepared_direct_transfer_signal")
        /\ ~IsNone(Correlated)
        /\ IsNone(Val(Correlated).transfer_id)
        /\ IsNone(Val(Correlated).finalized_at)
        /\ Val(Correlated).debtor_id = ret'.info.debtor_id
        /\ Val(Correlated).creditor_id = ret'.info.creditor_id
        /\ Val(Correlated).recipient = ret'.info.recipient
        /\ Val(Correlated).locked_amount = ret'.info.locked_amount)
       => /\ rt' = Some([Val(rt) EXCEPT
                            !.transfer_id = Some(ret'.info.transfer_id),
                            !.latest_update_id = @ + 1])
          /\ IsNone(Val(rt').finalized_at) /\ IsNone(Val(rt').error_code)
          /\ signals' = Append(signals,
                 [type |-> "FinalizeTransferSignal",
                  debtor_id |-> ret'.info.debtor_id,
                  creditor_id |-> ret'.info.creditor_id,
                  transfer_id |-> ret'.info.transfer_id,
                  coordinator_id |-> ret'.info.coordinator_id,
                  coordinator_request_id |-> ret'.info.coordinator_request_id,
                  committed_amount |-> Val(rt).amount,
                  transfer_note_format |-> Val(rt).transfer_note_format,
                  transfer_note |-> Val(rt).transfer_note])]_vars

\* The transfer has just been prepared with the transfer_id 2 and the last
\* signal commits its full amount.
C15_Witness ==
    /\ ret.op = "process_prepared_direct_transfer_signal"
    /\ ret.info.transfer_id = 2
    /\ ~IsNone(rt)
    /\ Val(rt).transfer_id = Some(2)
    /\ Val(rt).latest_update_id = 2
    /\ IsNone(Val(rt).finalized_at)
    /\ Len(signals) = 2
    /\ signals[2].type = "FinalizeTransferSignal"
    /\ signals[2].committed_amount = Val(rt).amount
    /\ signals[2].transfer_note = "{}"

\* What every rejection of a correlated, unfinalized RunningTransfer does
\* whatever error it records: finalized_at is set, transfer_id is kept,
\* latest_update_id grows by one, and one transfer-change entry is staged
\* that carries only finalized_at and error_code.
RejectionIsLogged ==
    /\ Val(rt').finalized_at = Some(now)
    /\ Val(rt').transfer_id = Val(rt).transfer_id
    /\ Val(rt').latest_update_id = Val(rt).latest_update_id + 1
    /\ rt' = Some([Val(rt) EXCEPT !.finalized_at = Val(rt').finalized_at,
                                  !.error_code = Val(rt').error_code,
                                  !.total_locked_amount = Val(rt').total_locked_amount,
                                  !.latest_update_id = @ + 1])
    /\ pending_log' = Append(pending_log,
           [object_type_hint |-> OTH_TRANSFER,
            object_update_id |-> Val(rt').latest_update_id,
            data_finalized_at |-> Val(rt').finalized_at,
            data_error_code |-> Val(rt').error_code])
    /\ signals' = signals

\* Whether the rejection of the step names the debtor and the creditor of
\* the correlated transfer and carries an error status.
RejectionAgrees ==
    /\ ret'.info.status_code # SC_OK
    /\ Val(Correlated).debtor_id = ret'.info.debtor_id
    /\ Val(Correlated).creditor_id = ret'.info.creditor_id

PassAppliesEveryFetchedFact ==
    /\ Called("process_pending_ledger_update")
    /\ ret'.result # "AssertionError"
    /\ marker
    /\ \A i \in 1 .. MaxBurst : ~PassMeetsYoungGap(i)

\* C17: a pass that applies every fetched fact returns True if and only if it
\* fetched fewer than burst_count facts; when it fetched burst_count facts it
\* returns False, keeps the marker and leaves more ledger entries than it
\* found; and the marker is deleted exactly in the passes that return True.
C17_PassDrainsIffFewerThanBurst ==
    [][/\ PassAppliesEveryFetchedFact =>
              LET fetched_count == Len(Fetched(ret'.info.burst_count))
              IN /\ (ret'.result = "True") <=> (fetched_count < ret'.info.burst_count)
                 /\ fetched_count = ret'.info.burst_count =>
                        /\ ret'.result = "False"
                        /\ marker'
                        /\ Len(ledger_entries') > Len(ledger_entries)
       /\ (Called("process_pending_ledger_update") /\ ret'.result # "AssertionError")
              => (~marker' <=> ret'.result = "True")]_vars

\* A pass with burst_count 2 has applied two facts, returned False and kept
\* the marker.
C17_Witness ==
    /\ ret.op = "process_pending_ledger_update"
    /\ ret.result = "False"
    /\ ret.info.burst_count = 2
    /\ marker
    /\ Len(ledger_entries) >= 2
    /\ data.ledger_last_transfer_number >= 2
    /\ IsNone(data.ledger_pending_transfer_ts)

\* The step is a pass made with the marker present that did not fail.
PassWithMarker ==
    /\ Called("process_pending_ledger_update")
    /\ ret'.result # "AssertionError"
    /\ marker

\* The pass of the step has staged exactly one ledger-update entry, which
\* carries the final ledger_latest_update_id, the final ledger_principal and
\* the id after the final ledger_last_entry_id, and has added exactly one
\* UpdatedLedgerSignal.
OneLedgerUpdateEnqueued ==
    /\ pending_log' = Append(pending_log,
           [object_type_hint |-> OTH_ACCOUNT_LEDGER,
            object_update_id |-> data'.ledger_latest_update_id,
            data_principal |-> data'.ledger_principal,
            data_next_entry_id |-> data'.ledger_last_entry_id + 1])
    /\ signals' = Append(signals, UpdatedLedgerSignal(data'))
    /\ data'.ledger_latest_update_id > data.ledger_latest_update_id

\* C18 as stated: a pass that changes ledger_principal or
\* ledger_last_transfer_number or appends a LedgerEntry enqueues exactly one
\* ledger-update entry with the final values (and one UpdatedLedgerSignal);
\* a pass that changes none of them enqueues none.
C18_EveryLedgerChangeIsLogged ==
    [][PassWithMarker =>
          IF \/ data'.ledger_principal # data.ledger_principal
             \/ data'.ledger_last_transfer_number # data.ledger_last_transfer_number
             \/ ledger_entries' # ledger_entries
          THEN OneLedgerUpdateEnqueued
          ELSE UNCHANGED << pending_log, signals >>]_vars

\* C18 (amended): a pass that appends a LedgerEntry, as every pass that
\* changes ledger_principal does, enqueues exactly one ledger-update entry
\* with the final values (and one UpdatedLedgerSignal), however many facts it
\* applied; a pass that appends none enqueues none, also when it moves
\* ledger_last_transfer_number to the peer-reported number.
C18_EveryLedgerEntryIsLogged ==
    [][PassWithMarker =>
          /\ data'.ledger_principal # data.ledger_principal
                 => Len(ledger_entries') > Len(ledger_entries)
          /\ SubSeq(ledger_entries', 1, Len(ledger_entries)) = ledger_entries
          /\ IF Len(ledger_entries') > Len(ledger_entries)
             THEN OneLedgerUpdateEnqueued
             ELSE UNCHANGED << pending_log, signals >>]_vars

\* A pass has applied the transfer 1 and, the transfer 2 being lost and old,
\* has corrected the ledger to the peer-reported principal: two entries were
\* added and the one staged log entry carries the final principal 0.
C18_Witness ==
    /\ ret.op = "process_pending_ledger_update"
    /\ ret.result = "True"
    /\ Len(ledger_entries) = 2
    /\ data.ledger_last_transfer_number = 2
    /\ data.ledger_principal = 0
    /\ Cardinality(facts) = 1
    /\ Len(pending_log) > 0
    /\ pending_log[Len(pending_log)].object_type_hint = OTH_ACCOUNT_LEDGER
    /\ pending_log[Len(pending_log)].data_principal = 0
    /\ pending_log[Len(pending_log)].data_next_entry_id = 3
    /\ pending_log[Len(pending_log)].object_update_id = data.ledger_latest_update_id

\* The step applies a snapshot of a later creation date than the stored one.
NewEpochSnapshot ==
    /\ Called("process_account_update_signal")
    /\ ret'.result = "applied"
    /\ ret'.info.creation_date > data.creation_date

\* The LedgerEntry rows the step has appended.
NewLedgerEntries == SubSeq(ledger_entries', Len(ledger_entries) + 1, Len(ledger_entries'))

\* C19: a snapshot of a later creation date than the stored one (the first
\* report included) resets the ledger: ledger_principal and
\* ledger_last_transfer_number become 0, ledger_pending_transfer_ts is
\* cleared, correction entries that take the old ledger_principal back to 0
\* are appended if and only if it was not 0, ledger_latest_update_id grows, a
\* ledger-update log entry and an UpdatedLedgerSignal with the principal 0 and
\* the last transfer number 0 are added in any case, and the marker exists
\* afterwards.
C19_NewEpochResetsTheLedger ==
    [][NewEpochSnapshot =>
          /\ data'.ledger_principal = 0
          /\ data'.ledger_last_transfer_number = 0
          /\ IsNone(data'.ledger_pending_transfer_ts)
          /\ SubSeq(ledger_entries', 1, Len(ledger_entries)) = ledger_entries
          /\ (NewLedgerEntries # << >>) <=> (data.ledger_principal # 0)
          /\ \A k \in 1 .. Len(NewLedgerEntries) :
                 IsNone(NewLedgerEntries[k].transfer_number)
          /\ SumAcquired(NewLedgerEntries) = 0 - data.ledger_principal
          /\ data'.ledger_latest_update_id = data.ledger_latest_update_id + 1
          /\ data'.ledger_last_entry_id =
                 data.ledger_last_entry_id + Len(NewLedgerEntries)
          /\ Len(pending_log') > Len(pending_log)
          /\ pending_log'[Len(pending_log')] =
                 [object_type_hint |-> OTH_ACCOUNT_LEDGER,
                  object_update_id |-> data'.ledger_latest_update_id,
                  data_principal |-> 0,
                  data_next_entry_id |-> data'.ledger_last_entry_id + 1]
          /\ signals' = Append(signals,
                 [type |-> "UpdatedLedgerSignal",
                  update_id |-> data'.ledger_latest_update_id,
                  account_id |-> data'.account_id,
                  creation_date |-> ret'.info.creation_date,
                  principal |-> 0, last_transfer_number |-> 0])
          /\ marker']_vars

\* The snapshot of the second epoch has just reset a ledger that stood at
\* the principal 2: a correction entry of -2 is the last LedgerEntry, and the
\* ledger is at 0 with the marker present.
C19_Witness ==
    /\ ret.op = "process_account_update_signal"
    /\ ret.result = "applied"
    /\ ret.info.creation_date = 2
    /\ data.creation_date = 2
    /\ Len(ledger_entries) = 3
    /\ ledger_entries[3].acquired_amount = 0 - 2
    /\ IsNone(ledger_entries[3].transfer_number)
    /\ data.ledger_principal = 0
    /\ data.ledger_last_transfer_number = 0
    /\ marker

\* The snapshot of the step echoes the scheduled-for-deletion flag together
\* with a negligible amount of at least (1 - EPS) * HUGE_NEGLIGIBLE_AMOUNT.
EchoesTheDiscard ==
    /\ (ret'.info.config_flags \div CONFIG_SCHEDULED_FOR_DELETION_FLAG) % 2 = 1
    /\ ret'.info.negligible_amount * EpsInv >= (EpsInv - 1) * HUGE_NEGLIGIBLE_AMOUNT

\* C20: a snapshot that finds no local account changes no account, ledger,
\* marker, transfer or log row; it adds one ConfigureAccountSignal with the
\* huge negligible amount and the scheduled-for-deletion flag, unless the
\* snapshot already echoes that flag with a negligible amount of at least the
\* huge threshold: then it adds nothing.
C20_OrphanSnapshotTouchesNoLocalRow ==
    [][(/\ Called("process_account_update_signal")
        /\ ~has_account
        /\ ret'.result # "expired")
       => /\ ret'.result = "orphaned"
          /\ UNCHANGED << has_account, data, facts, marker, ledger_entries,
                          pending_log, rt, creditor, log_entries, txn >>
          /\ signals' =
                 IF EchoesTheDiscard THEN signals
                 ELSE Append(signals,
                          [type |-> "ConfigureAccountSignal", seqnum |-> 0,
                           negligible_amount |-> HUGE_NEGLIGIBLE_AMOUNT,
                           config_flags |-> DEFAULT_CONFIG_FLAGS
                                            + CONFIG_SCHEDULED_FOR_DELETION_FLAG])]_vars

\* A snapshot that carries the flag but a negligible amount below the huge
\* one has just found no local account, and the last signal schedules the
\* peer's account for deletion.
C20_Witness ==
    /\ ret.op = "process_account_update_signal"
    /\ ret.result = "orphaned"
    /\ ~has_account
    /\ ret.info.config_flags = CONFIG_SCHEDULED_FOR_DELETION_FLAG
    /\ ret.info.negligible_amount < HUGE_NEGLIGIBLE_AMOUNT
    /\ Len(signals) > 0
    /\ signals[Len(signals)].type = "ConfigureAccountSignal"
    /\ signals[Len(signals)].negligible_amount = HUGE_NEGLIGIBLE_AMOUNT
    /\ Len(log_entries) >= 10

\* Whether the message of the step (a snapshot's config echo or a rejected
\* config) carries the config fields f stored before the step, the
\* negligible amount within the relative epsilon.
CarriesStoredConfig(f) ==
    /\ f.ts = data.last_config_ts
    /\ f.seqnum = data.last_config_seqnum
    /\ ret'.info.config_flags = data.config_flags
    /\ ret'.info.config_data = data.config_data
    /\ Abs(data.negligible_amount - ret'.info.negligible_amount) * EpsInv
           <= ret'.info.negligible_amount

\* The step leaves the stored config request as it was.
StoredConfigUnchanged ==
    /\ data'.last_config_ts = data.last_config_ts
    /\ data'.last_config_seqnum = data.last_config_seqnum
    /\ data'.config_flags = data.config_flags
    /\ data'.config_data = data.config_data
    /\ data'.negligible_amount = data.negligible_amount

\* C21: after a newer snapshot is applied, is_config_effectual is true
\* exactly when the snapshot echoes the stored config (ts, seqnum, flags and
\* data equal, the negligible amount within the relative epsilon); the
\* stored config_error is cleared when it is true and kept as it was when it
\* is not; the stored config fields are never changed.
C21_EffectualIffSnapshotEchoesConfig ==
    [][(Called("process_account_update_signal") /\ ret'.result = "applied")
       => LET echoes == CarriesStoredConfig([ts |-> ret'.info.last_config_ts,
                                             seqnum |-> ret'.info.last_config_seqnum])
          IN /\ data'.is_config_effectual = echoes
             /\ data'.config_error = IF echoes THEN None ELSE data.config_error
             /\ StoredConfigUnchanged]_vars

\* A snapshot has just echoed the stored config with a negligible amount
\* that differs from the configured one by less than the epsilon: the
\* config is effectual and the rejection that was stored is cleared, which
\* is logged as an info change.
C21_Witness ==
    /\ ret.op = "process_account_update_signal"
    /\ ret.result = "applied"
    /\ ret.info.negligible_amount = CONFIGURED_NEGLIGIBLE_AMOUNT - 1
    /\ data.negligible_amount = CONFIGURED_NEGLIGIBLE_AMOUNT
    /\ data.is_config_effectual
    /\ IsNone(data.config_error)
    /\ Len(pending_log) >= 3
    /\ data.info_latest_update_id >= 4

\* C22: a rejected-config signal stores its rejection code and stages
\* exactly one info-change entry if it carries the stored config (ts, seqnum,
\* flags and data equal, the negligible amount within the relative epsilon)
\* and no config_error is stored; a signal that differs in a field, or one
\* delivered after a rejection was stored, changes nothing and stages
\* nothing.
C22_RejectionStoredOnlyForCurrentConfig ==
    [][Called("process_rejected_config_signal")
       => IF /\ CarriesStoredConfig([ts |-> ret'.info.config_ts,
                                     seqnum |-> ret'.info.config_seqnum])
             /\ IsNone(data.config_error)
          THEN /\ data' = [data EXCEPT
                              !.config_error = Some(ret'.info.rejection_code),
                              !.info_latest_update_id = @ + 1]
               /\ pending_log' = Append(pending_log,
                      [object_type_hint |-> OTH_ACCOUNT_INFO,
                       object_update_id |-> data'.info_latest_update_id])
               /\ UNCHANGED << has_account, facts, marker, ledger_entries,
                               signals, rt, creditor, log_entries >>
          ELSE UNCHANGED << has_account, data, facts, marker, ledger_entries,
                            pending_log, signals, rt, creditor, log_entries >>]_vars

\* A rejection that carries a negligible amount within the epsilon of the
\* configured one has just been stored and logged.
C22_Witness ==
    /\ ret.op = "process_rejected_config_signal"
    /\ ret.result = "rejected"
    /\ data.config_error = Some("TEST_CODE")
    /\ data.negligible_amount = CONFIGURED_NEGLIGIBLE_AMOUNT
    /\ ret.info.negligible_amount = CONFIGURED_NEGLIGIBLE_AMOUNT - 1
    /\ Len(pending_log) > 0
    /\ pending_log[Len(pending_log)] =
           [object_type_hint |-> OTH_ACCOUNT_INFO,
            object_update_id |-> data.info_latest_update_id]

\* C23: a purge takes effect only for the account it names, when the account
\* has has_server_account set and a creation_date not later than the
\* purge's: it then sets principal and interest to 0, clears
\* has_server_account and stages one info-change entry; any other purge (of
\* an older epoch, of an unknown account, or repeated) changes nothing and
\* stages nothing.
C23_PurgeOnlyForCurrentOrOlderEpoch ==
    [][Called("process_account_purge_signal")
       => IF /\ has_account
             /\ ret'.info.debtor_id = D_ID
             /\ ret'.info.creditor_id = C_ID
             /\ data.has_server_account
             /\ data.creation_date <= ret'.info.creation_date
          THEN /\ data' = [data EXCEPT !.has_server_account = FALSE,
                                       !.principal = 0,
                                       !.interest = 0,
                                       !.info_latest_update_id = @ + 1]
               /\ pending_log' = Append(pending_log,
                      [object_type_hint |-> OTH_ACCOUNT_INFO,
                       object_update_id |-> data'.info_latest_update_id])
               /\ UNCHANGED << has_account, facts, marker, ledger_entries,
                               signals, rt, creditor, log_entries >>
          ELSE UNCHANGED << has_account, data, facts, marker, ledger_entries,
                            pending_log, signals, rt, creditor, log_entries >>]_vars

\* The account of the creation date 2 has been purged after a purge of the
\* creation date 1 had been ignored: principal and interest are 0 and the
\* last staged entry is the info change.
C23_Witness ==
    /\ ret.op = "process_account_purge_signal"
    /\ ret.result = "purged"
    /\ ret.info.creation_date = 2
    /\ data.creation_date = 2
    /\ ~data.has_server_account
    /\ data.principal = 0
    /\ data.interest = 0
    /\ Len(pending_log) > 0
    /\ pending_log[Len(pending_log)] =
           [object_type_hint |-> OTH_ACCOUNT_INFO,
            object_update_id |-> data.info_latest_update_id]

\* The stored facts of the account's current creation_date that the ledger has
\* not reached.
PendingFacts ==
    {f \in facts : /\ f.creation_date = data.creation_date
                   /\ f.transfer_number > data.ledger_last_transfer_number}

Holders(row) == {w \in Workers : ~IsNone(txn[w]) /\ row \in Val(txn[w]).locks}

\* No committed transfer has two LedgerEntry rows, and the entry ids of the
\* rows increase.
NoFactAppliedTwice ==
    \A i, j \in 1 .. Len(ledger_entries) :
        i < j => /\ ledger_entries[i].entry_id < ledger_entries[j].entry_id
                 /\ \/ IsNone(ledger_entries[i].transfer_number)
                    \/ ledger_entries[i].transfer_number
                           # ledger_entries[j].transfer_number
                    \/ ledger_entries[i].creation_date
                           # ledger_entries[j].creation_date

\* The row agrees with the last LedgerEntry row: no write of a transaction
\* was overwritten by another.
NoLedgerUpdateLost ==
    Len(ledger_entries) > 0 =>
        /\ data.ledger_last_entry_id
               = ledger_entries[Len(ledger_entries)].entry_id
        /\ data.ledger_principal
               = ledger_entries[Len(ledger_entries)].principal

\* C25: at most one transaction holds the PendingLedgerUpdate row and at most
\* one (a pass, a snapshot application or a deletion) holds the AccountData
\* row; under every interleaving of the workers no committed transfer is
\* added to the ledger twice, the row and the entries agree, and once the
\* account is deleted it has no marker and no step adds a LedgerEntry or
\* changes the row.
C25_PassesSnapshotsAndDeletionsAreSerialized ==
    /\ [](/\ Cardinality(Holders("PendingLedgerUpdate")) <= 1
          /\ Cardinality(Holders("AccountData")) <= 1
          /\ NoFactAppliedTwice
          /\ NoLedgerUpdateLost
          /\ ~has_account => ~marker)
    /\ [][~has_account => /\ ledger_entries' = ledger_entries
                          /\ data' = data
                          /\ ~marker']_vars

\* Worker w2 has committed a pass that added the second transfer to the
\* ledger (the first was added by an earlier pass) while the delete_account
\* of worker w1 holds the Creditor row and waits for the AccountData row.
C25_Witness ==
    /\ ret.op = "process_pending_ledger_update"
    /\ "worker" \in DOMAIN ret.info
    /\ ret.info.worker = "w2"
    /\ Len(ledger_entries) = 2
    /\ data.ledger_last_transfer_number = 2
    /\ ~IsNone(txn["w1"])
    /\ Val(txn["w1"]).op = "delete_account"
    /\ Val(txn["w1"]).locks = {"Creditor"}

\* The transfer exists and is not finalized.
TransferIsRunning == ~IsNone(rt) /\ IsNone(Val(rt).finalized_at)

\* C26 as stated: a delete request for a transfer whose finalized_at is null
\* is refused and leaves the row in place.
C26_RunningTransferIsNotDeleted ==
    [][(Called("delete_running_transfer") /\ TransferIsRunning)
       => (rt' = rt /\ pending_log' = pending_log)]_vars

\* C26 (amended): a delete request removes the transfer whether or not it is
\* finalized, enqueues one deletion log entry for it and sends nothing to the
\* peer; without a transfer it fails with TransferDoesNotExist and changes
\* nothing.
C26_DeleteRemovesTheTransfer ==
    [][Called("delete_running_transfer")
       => IF IsNone(rt)
          THEN /\ ret'.result = "TransferDoesNotExist"
               /\ UNCHANGED << rt, pending_log, signals >>
          ELSE /\ ret'.result = "None"
               /\ rt' = None
               /\ pending_log' = Append(pending_log,
                      [object_type_hint |-> OTH_TRANSFER, is_deleted |-> TRUE])
               /\ signals' = signals]_vars

\* A transfer was initiated and deleted with no finalization in between: the
\* staged entries are its creation and its deletion.
C26_Witness ==
    /\ ret.op = "delete_running_transfer"
    /\ ret.result = "None"
    /\ IsNone(rt)
    /\ Len(pending_log) = 2
    /\ column(pending_log[1], "is_created", FALSE)
    /\ column(pending_log[2], "is_deleted", FALSE)

\* The last call was a read of the log that returned a page.
PageReturned == ret.op = "get_creditor_log_entries" /\ ret.result = "None"

\* The LogEntry rows with an entry_id above prev, in the order of the log.
EntriesAfter(prev) == SelectSeq(log_entries, LAMBDA e : e.entry_id > prev)

UpdateCreditorEnds(w) ==
    /\ ~IsNone(txn[w])
    /\ Val(txn[w]).op = "update_creditor"
    /\ IsNone(txn'[w])

\* C28: an update_creditor whose latest_update_id is the stored id plus one
\* increases the stored id by one and appends one log entry of the creditor
\* that carries the new id; one whose latest_update_id is the stored id
\* returns normally and changes neither the row nor the log; any other id is
\* an UpdateConflict and changes nothing.
C28_UpdateCreditorFollowsTheProtocol ==
    [][\A w \in Workers : UpdateCreditorEnds(w) =>
        LET latest_update_id == Val(txn[w]).arg
            stored == creditor.creditor_latest_update_id
        IN IF latest_update_id = stored + 1
           THEN /\ ret'.result = "None"
                /\ creditor'.creditor_latest_update_id = stored + 1
                /\ Len(log_entries') = Len(log_entries) + 1
                /\ log_entries'[Len(log_entries')].object_type = TYPE_CREDITOR
                /\ log_entries'[Len(log_entries')].object_update_id
                       = Some(stored + 1)
                /\ SubSeq(log_entries', 1, Len(log_entries)) = log_entries
           ELSE /\ ret'.result = IF latest_update_id = stored THEN "None"
                                 ELSE "UpdateConflict"
                /\ UNCHANGED << creditor, log_entries >>]_vars

\* The update 2 was applied (the log holds its entry) and is requested
\* again: the repeated request holds the Creditor row and reads the id 2.
C28_Witness ==
    /\ creditor.creditor_latest_update_id = 2
    /\ \E i \in 1 .. Len(log_entries) :
           /\ log_entries[i].object_type = TYPE_CREDITOR
           /\ log_entries[i].object_update_id = Some(2)
    /\ \E w \in Workers :
           /\ ~IsNone(txn[w])
           /\ Val(txn[w]).op = "update_creditor"
           /\ Val(txn[w]).arg = 2
           /\ Val(txn[w]).creditor.creditor_latest_update_id = 2


\* The row whose lock the next statement of the open transaction t asks for,
\* or None when it asks for none: a pass that holds the PendingLedgerUpdate
\* row selects the AccountData row next; the DELETE of delete_account
\* cascades to the AccountData row and then to the PendingLedgerUpdate row.
NextLock(t) ==
    IF t.op = "process_pending_ledger_update" /\ "AccountData" \notin t.locks
    THEN Some("AccountData")
    ELSE IF t.op = "delete_account" /\ has_account /\ "AccountData" \notin t.locks
    THEN Some("AccountData")
    ELSE IF /\ t.op = "delete_account" /\ has_account /\ marker
            /\ "PendingLedgerUpdate" \notin t.locks
    THEN Some("PendingLedgerUpdate")
    ELSE None

\* Worker w waits for a lock that worker v holds.
WaitsFor(w, v) ==
    /\ w # v
    /\ ~IsNone(txn[w])
    /\ ~IsNone(txn[v])
    /\ ~IsNone(NextLock(Val(txn[w])))
    /\ Val(NextLock(Val(txn[w]))) \in Val(txn[v]).locks

\* C29 as stated: no interleaving of delete_account, create_new_account, the
\* log flush, the reconciliation pass and the signal handlers reaches a
\* deadlock, a cycle of workers each waiting for a lock another holds.
C29_NoDeadlock ==
    ~(\E w, v \in Workers : WaitsFor(w, v) /\ WaitsFor(v, w))


IsPrefix(a, b) == Len(a) <= Len(b) /\ SubSeq(b, 1, Len(a)) = a

\* The staged entries in the order they were staged: those that were copied
\* to the log, then those that are pending.
Staged(rows, pending) == Originals(rows) \o pending

\* This step is a call of a signal handler.
HandlerStep ==
    \/ Called("process_account_update_signal")
    \/ Called("process_account_transfer_signal")
    \/ Called("process_pending_ledger_update")

EndedTransaction == Val(txn[ret'.info.worker])

\* The LogEntry rows the step adds.
RowsAdded == SubSeq(log_entries', Len(log_entries) + 1, Len(log_entries'))

\* The step leaves the account, the creditor's account-list version and the
\* log as they are.
DeletionChangesNothing ==
    /\ has_account' = has_account
    /\ data' = data
    /\ marker' = marker
    /\ creditor' = creditor
    /\ log_entries' = log_entries
    /\ pending_log' = pending_log

\* The step removes the account, bumps the account-list version by one and
\* appends eight rows to the log: the account-list update with the new
\* version, then the deletion entries of the account's seven objects.
DeletionIsLogged ==
    /\ ~has_account'
    /\ creditor'.account_list_latest_update_id =
           creditor.account_list_latest_update_id + 1
    /\ creditor'.last_log_entry_id = creditor.last_log_entry_id + 8
    /\ Len(log_entries') = Len(log_entries) + 8
    /\ SubSeq(log_entries', 1, Len(log_entries)) = log_entries
    /\ RowsAdded[1].object_type = TYPE_ACCOUNT_LIST
    /\ ~RowsAdded[1].is_deleted
    /\ RowsAdded[1].object_update_id =
           Some(creditor'.account_list_latest_update_id)
    /\ \A i \in 2 .. 8 : /\ RowsAdded[i].is_deleted
                         /\ IsNone(RowsAdded[i].object_update_id)
    /\ {RowsAdded[i].object_type : i \in 2 .. 8} =
           {"Account", "AccountConfig", "AccountInfo", "AccountLedger",
            "AccountDisplay", "AccountExchange", "AccountKnowledge"}
    /\ \A i \in 1 .. 8 : RowsAdded[i].entry_id = creditor.last_log_entry_id + i

SnapshotTakenForNewer ==
    /\ Called("process_account_update_signal")
    /\ ret'.result \notin {"expired", "orphaned", "stale"}

\* C32: no signal and no reconciliation pass fails on what the peer supplied.
\* Whenever process_account_update_signal gets past its staleness test the
\* snapshot's creation_date is not before the stored one (the assertion of
\* line 138 holds) and the snapshot is applied; and no call of a snapshot,
\* of a fact or of a pass ends with the assertion of _update_ledger failed.
C32_NoAssertionFailsOnPeerValues ==
    /\ [](ret.result # "AssertionError")
    /\ [][SnapshotTakenForNewer =>
              /\ ret'.info.creation_date >= data.creation_date
              /\ ret'.result = "applied"]_vars
    /\ [][Called("process_pending_ledger_update") =>
              ret'.result \in {"True", "False"}]_vars

\* A fact whose amount and principal do not agree (it acquires the least
\* amount and leaves the greatest principal) was applied, and a pass has
\* self-healed the ledger to the peer-reported transfer 2, whose principal
\* the ledger already had: the only entry is the fact's.
C32_Witness ==
    /\ ret.op = "process_pending_ledger_update"
    /\ ret.result = "True"
    /\ data.creation_date >= 1
    /\ data.ledger_principal = MAX_INT64
    /\ data.ledger_last_transfer_number = 2
    /\ Len(ledger_entries) = 1
    /\ ledger_entries[1].transfer_number = Some(1)
    /\ ledger_entries[1].acquired_amount = MIN_INT64

\* The step is a pass that finds the marker and runs to its end.
PassRuns ==
    /\ Called("process_pending_ledger_update")
    /\ marker
    /\ ret'.result \in {"True", "False"}

\* The LedgerEntry rows the step adds.
EntriesAdded == SubSeq(ledger_entries', Len(ledger_entries) + 1, Len(ledger_entries'))

\* The transfer number at which the walk of the step leaves the ledger: that
\* of the last fact the step applies, or the ledger's own when it applies none.
RECURSIVE LastRealTransfer(_, _)
LastRealTransfer(entries, default) ==
    IF entries = << >> THEN default
    ELSE IF IsNone(entries[Len(entries)].transfer_number)
    THEN LastRealTransfer(SubSeq(entries, 1, Len(entries) - 1), default)
    ELSE Val(entries[Len(entries)].transfer_number)

WalkedTo == LastRealTransfer(EntriesAdded, data.ledger_last_transfer_number)

\* The step moves the ledger to a transfer number for which it applies no
\* fact: the ledger jumps.
LedgerJumps ==
    /\ data'.ledger_last_transfer_number # data.ledger_last_transfer_number
    /\ data'.ledger_last_transfer_number # WalkedTo

\* The peer-reported last transfer was committed before the cutoff of the
\* step's pass, now - max_delay.
LastTransferIsOld == data.last_transfer_committed_at < ret'.info.committed_at_cutoff

\* C33 (as stated): a pass jumps the ledger to the peer-reported
\* (last_transfer_number, principal) only if it is drained, no gap wait is
\* outstanding, the reported number is ahead of the ledger and the reported
\* transfer is older than now - max_delay; and when the reported transfer is
\* not that old a drained pass leaves ledger_principal,
\* ledger_last_transfer_number and ledger_last_entry_id unchanged and creates
\* no correction entry.
C33_YoungLastTransferFreezesTheLedger ==
    [][PassRuns =>
          /\ LedgerJumps =>
                 /\ ret'.result = "True"
                 /\ IsNone(data'.ledger_pending_transfer_ts)
                 /\ data.last_transfer_number > data.ledger_last_transfer_number
                 /\ LastTransferIsOld
          /\ ret'.result = "True" /\ ~LastTransferIsOld =>
                 /\ data'.ledger_principal = data.ledger_principal
                 /\ data'.ledger_last_transfer_number = data.ledger_last_transfer_number
                 /\ data'.ledger_last_entry_id = data.ledger_last_entry_id
                 /\ \A i \in 1 .. Len(EntriesAdded) :
                        ~IsNone(EntriesAdded[i].transfer_number)]_vars

\* C33 (amended): a pass jumps the ledger only if it is drained, its walk has
\* left no gap wait outstanding, the reported last_transfer_number is ahead
\* of where the walk left the ledger and the reported transfer is older than
\* now - max_delay; the jump ends at the peer-reported (last_transfer_number,
\* principal).  When the reported transfer is not that old, the pass leaves
\* the ledger where its walk over the fetched facts left it; a pass that
\* fetched no fact then leaves ledger_principal, ledger_last_transfer_number
\* and ledger_last_entry_id unchanged and adds no entry.
C33_NoJumpBeforeTheLastTransferIsOld ==
    [][PassRuns =>
          /\ LedgerJumps =>
                 /\ ret'.result = "True"
                 /\ IsNone(data'.ledger_pending_transfer_ts)
                 /\ data.last_transfer_number > WalkedTo
                 /\ LastTransferIsOld
                 /\ data'.ledger_last_transfer_number = data.last_transfer_number
                 /\ data'.ledger_principal = data.principal
          /\ ~LastTransferIsOld =>
                 /\ ~LedgerJumps
                 /\ data'.ledger_last_transfer_number = WalkedTo
                 /\ EntriesAdded # << >> =>
                        /\ ~IsNone(EntriesAdded[Len(EntriesAdded)].transfer_number)
                        /\ data'.ledger_principal =
                               EntriesAdded[Len(EntriesAdded)].principal
                 /\ Fetched(ret'.info.burst_count) = << >> =>
                        /\ data'.ledger_principal = data.ledger_principal
                        /\ data'.ledger_last_transfer_number =
                               data.ledger_last_transfer_number
                        /\ data'.ledger_last_entry_id = data.ledger_last_entry_id
                        /\ ledger_entries' = ledger_entries]_vars

\* A pass has drained the account while the peer reports a last transfer
\* that is ahead of the ledger and not older than the cutoff: no gap wait is
\* outstanding, and the ledger was not moved to the reported numbers.
C33_Witness ==
    /\ ret.op = "process_pending_ledger_update"
    /\ ret.result = "True"
    /\ ~marker
    /\ IsNone(data.ledger_pending_transfer_ts)
    /\ data.last_transfer_number > data.ledger_last_transfer_number
    /\ data.last_transfer_committed_at >= ret.info.committed_at_cutoff
    /\ data.ledger_principal # data.principal

\* The principal before the k-th LedgerEntry row: that of the row before it,
\* 0 for the first row of a new account.
PrincipalBefore(k) == IF k = 1 THEN 0 ELSE ledger_entries[k - 1].principal

\* The k-th row is the entry of a fact whose previous principal,
\* principal - acquired_amount, is outside the signed range.
IsOutOfRangeFact(k) ==
    /\ ~IsNone(ledger_entries[k].transfer_number)
    /\ ledger_entries[k].principal - ledger_entries[k].acquired_amount \notin Int64

\* Each row's principal is the sum of the acquired amounts up to and
\* including the row.
PrincipalsAreRunningSums ==
    \A k \in 1 .. Len(ledger_entries) :
        ledger_entries[k].principal = SumAcquired(SubSeq(ledger_entries, 1, k))

\* C34 (as stated): in an account that started with ledger_principal = 0 and
\* no entries, after any snapshots, facts and passes, ledger_principal is the
\* sum of acquired_amount over the account's LedgerEntry rows and each row's
\* principal is the running sum up to and including it, also when a fact's
\* principal - acquired_amount is outside the signed 64-bit range.
C34_LedgerIsTheSumOfItsEntries ==
    /\ data.ledger_principal = SumAcquired(ledger_entries)
    /\ PrincipalsAreRunningSums

\* C34 (amended): ledger_principal is the principal of the newest row (0 when
\* there is none); each row's principal is the principal before it plus its
\* acquired_amount, except for the entry of a fact whose
\* principal - acquired_amount is outside the signed range, which is recorded
\* as reported with no correction before it; so as long as no such fact was
\* applied ledger_principal is the sum of the acquired amounts and each
\* row's principal is the running sum.
C34_EntriesChainUnlessAFactIsOutOfRange ==
    /\ data.ledger_principal = PrincipalBefore(Len(ledger_entries) + 1)
    /\ \A k \in 1 .. Len(ledger_entries) :
           \/ ledger_entries[k].principal =
                  PrincipalBefore(k) + ledger_entries[k].acquired_amount
           \/ IsOutOfRangeFact(k)
    /\ (\A k \in 1 .. Len(ledger_entries) : ~IsOutOfRangeFact(k)) =>
           /\ data.ledger_principal = SumAcquired(ledger_entries)
           /\ PrincipalsAreRunningSums

\* A fact that acquires 1 from the least principal was applied to a ledger
\* that stood elsewhere: two correction entries take the ledger from 0 to
\* the least principal, the fact's entry follows, and the three amounts add
\* up to the ledger's principal.
C34_Witness ==
    /\ Len(ledger_entries) = 3
    /\ IsNone(ledger_entries[1].transfer_number)
    /\ IsNone(ledger_entries[2].transfer_number)
    /\ ledger_entries[2].principal = MIN_INT64
    /\ ledger_entries[3].transfer_number = Some(2)
    /\ data.ledger_principal = MIN_INT64 + 1
    /\ SumAcquired(ledger_entries) = data.ledger_principal

\* The real entries among the LedgerEntry rows k of the epoch creation_date.
IsRealEntryOf(k, creation_date) ==
    /\ ~IsNone(ledger_entries[k].transfer_number)
    /\ ledger_entries[k].creation_date = Some(creation_date)

\* C35: the LedgerEntry ids of an account are consecutive: the rows are only
\* ever appended, each new row gets the next id after ledger_last_entry_id,
\* and ledger_last_entry_id is the id of the newest row (0 when there is
\* none); within one epoch the transfer numbers of the real entries grow
\* strictly in entry_id order, and every real entry a step adds is of the
\* row's epoch and has a transfer number above ledger_last_transfer_number:
\* a fact at or below it is never applied.
C35_EntryIdsConsecutiveTransferNumbersIncreasing ==
    /\ [](/\ \A k \in 1 .. Len(ledger_entries) : ledger_entries[k].entry_id = k
          /\ data.ledger_last_entry_id = Len(ledger_entries)
          /\ \A i, j \in 1 .. Len(ledger_entries) :
                 (/\ i < j
                  /\ \E cd \in 0 .. 2 : IsRealEntryOf(i, cd) /\ IsRealEntryOf(j, cd))
                 => Val(ledger_entries[i].transfer_number)
                        < Val(ledger_entries[j].transfer_number))
    /\ [][/\ Len(ledger_entries') >= Len(ledger_entries)
          /\ SubSeq(ledger_entries', 1, Len(ledger_entries)) = ledger_entries
          /\ \A k \in 1 .. Len(EntriesAdded) :
                 /\ EntriesAdded[k].entry_id = data.ledger_last_entry_id + k
                 /\ ~IsNone(EntriesAdded[k].transfer_number) =>
                        /\ Called("process_pending_ledger_update")
                        /\ EntriesAdded[k].creation_date = Some(data.creation_date)
                        /\ Val(EntriesAdded[k].transfer_number)
                               > data.ledger_last_transfer_number
                        /\ data'.ledger_last_transfer_number
                               >= Val(EntriesAdded[k].transfer_number)]_vars

\* The fact 2 of the epoch was applied after corrections (three rows with the
\* ids 1 to 3), the fact 1 of the same epoch arrived afterwards, and a pass
\* has run since: the fact 1 was not applied.
C35_Witness ==
    /\ ret.op = "process_pending_ledger_update"
    /\ ret.result = "True"
    /\ data.ledger_last_entry_id = 3
    /\ data.ledger_last_transfer_number = 2
    /\ IsRealEntryOf(3, data.creation_date)
    /\ \E f \in facts : /\ f.creation_date = data.creation_date
                        /\ f.transfer_number = 1
    /\ \A k \in 1 .. 3 : ledger_entries[k].transfer_number # Some(1)

\* The transfer was canceled before it was prepared: it is finalized with the
\* error code of a cancellation and has no transfer_id.
Canceled ==
    /\ ~IsNone(rt)
    /\ ~IsNone(Val(rt).finalized_at)
    /\ Val(rt).error_code = Some(SC_CANCELED_BY_THE_SENDER)
    /\ IsNone(Val(rt).transfer_id)

\* The signals that ask the peer to finalize a reservation made for the
\* request of the transfer.
FinalizeRequests ==
    {i \in 1 .. Len(signals) :
        /\ signals[i].type = "FinalizeTransferSignal"
        /\ signals[i].coordinator_id = Val(rt).creditor_id
        /\ signals[i].coordinator_request_id = Val(rt).coordinator_request_id}

\* C36: no commit after cancel.  A cancel_running_transfer that succeeds on a
\* transfer that is neither prepared nor finalized finalizes it as canceled
\* with transfer_id still null; from then on no reply changes the transfer,
\* no FinalizeTransferSignal for its request carries a non-zero
\* committed_amount, neither one sent before nor one sent after, and a
\* TransferPrepared reply for the request is answered with exactly one
\* FinalizeTransferSignal of the amount 0.
C36_NoCommitAfterCancel ==
    /\ [](Canceled => \A i \in FinalizeRequests : signals[i].committed_amount = 0)
    /\ [][(/\ Called("cancel_running_transfer")
           /\ ret'.result = "None"
           /\ IsNone(Val(rt).finalized_at))
          => /\ Canceled'
             /\ Val(rt').finalized_at = Some(now)]_vars
    /\ [][Canceled => rt' = rt]_vars
    /\ [][(/\ Canceled
           /\ Called("process_prepared_direct_transfer_signal")
           /\ ret'.info.coordinator_id = Val(rt).creditor_id
           /\ ret'.info.coordinator_request_id = Val(rt).coordinator_request_id)
          => /\ Len(signals') = Len(signals) + 1
             /\ signals'[Len(signals')].type = "FinalizeTransferSignal"
             /\ signals'[Len(signals')].transfer_id = ret'.info.transfer_id
             /\ signals'[Len(signals')].committed_amount = 0
             /\ SubSeq(signals', 1, Len(signals)) = signals]_vars

\* The transfer was canceled, and two TransferPrepared replies for its
\* request, with the transfer ids 1 and 2, have each been answered with a
\* finalize request of the amount 0.
C36_Witness ==
    /\ Canceled
    /\ ret.op = "process_prepared_direct_transfer_signal"
    /\ ret.info.coordinator_request_id = 1
    /\ Len(signals) = 3
    /\ {signals[2].transfer_id, signals[3].transfer_id} = {1, 2}
    /\ signals[2].committed_amount = 0
    /\ signals[3].committed_amount = 0

\* The step is a TransferPrepared reply that agrees with the transfer, which
\* has recorded a transfer_id before.
PreparedAgain ==
    /\ Called("process_prepared_direct_transfer_signal")
    /\ ~IsNone(rt)
    /\ ~IsNone(Val(rt).transfer_id)
    /\ ret'.info.coordinator_id = Val(rt).creditor_id
    /\ ret'.info.coordinator_request_id = Val(rt).coordinator_request_id
    /\ ret'.info.debtor_id = Val(rt).debtor_id
    /\ ret'.info.creditor_id = Val(rt).creditor_id
    /\ ret'.info.recipient = Val(rt).recipient
    /\ ret'.info.locked_amount = Val(rt).locked_amount

RealTransfersCount == IF IsNone(rt) THEN 0 ELSE 1

\* C38: at every point of every execution of the POST and DELETE routes of
\* the transfers, with workers dying between any two calls and with
\* concurrent DELETEs of the same transfer, the recorded number of transfers
\* of the creditor is at most the number of its RunningTransfer rows.  The
\* number changes by one at a time: it is raised by a POST only after that
\* request has inserted the row, and by a DELETE only after that request has
\* lowered it and found no row.
C38_RecordedTransfersAtMostReal ==
    /\ [](creditor.transfers_count <= RealTransfersCount)
    /\ [][\A w \in Workers :
            /\ (ret'.op = "TransferEndpoint.delete" /\ ret'.info.worker = w
                /\ rt' # rt)
               => /\ txn[w] = Some(Request("TransferEndpoint.delete",
                                           "delete_running_transfer"))
                  /\ rt' = None
                  /\ creditor' = creditor
            /\ creditor'.transfers_count > creditor.transfers_count
               => /\ creditor'.transfers_count = creditor.transfers_count + 1
                  /\ creditor.transfers_count < RealTransfersCount
                  /\ rt' = rt]_vars

\* Both workers serve a DELETE of the transfer that a POST has created and
\* registered; one has deleted the row and returned, the other has found no
\* row and has not yet incremented the number again: one transfer too few is
\* recorded.
C38_Witness ==
    /\ ret = Ret("TransferEndpoint.delete", "204", [worker |-> "w2"])
    /\ txn["w1"] = Some(Request("TransferEndpoint.delete", "increment_transfer_number"))
    /\ IsNone(rt)
    /\ creditor.transfers_count = -1
    /\ Len(pending_log) = 2

\* The step is a newer snapshot that the handler has applied.
SnapshotApplied ==
    /\ Called("process_account_update_signal")
    /\ ret'.result = "applied"

\* The snapshot of the step reports the info that the row already has.
InfoUnchanged ==
    /\ data'.account_id = data.account_id
    /\ data'.interest_rate = data.interest_rate
    /\ data'.last_interest_rate_change_ts = data.last_interest_rate_change_ts
    /\ data'.transfer_note_max_bytes = data.transfer_note_max_bytes
    /\ data'.debtor_info_iri = data.debtor_info_iri
    /\ data'.debtor_info_content_type = data.debtor_info_content_type
    /\ data'.debtor_info_sha256 = data.debtor_info_sha256
    /\ data'.config_error = data.config_error

\* C39: a newer snapshot that reports the account_id, the interest rate
\* (whatever its sign), its change timestamp, the note size limit, the
\* debtor-info fields and the config error that the row already has, for an
\* account that was not safe to delete, stages no info-change log entry and
\* leaves info_latest_update_id as it is.
C39_NoInfoEntryWhenInfoUnchanged ==
    [][(SnapshotApplied /\ InfoUnchanged /\ ~is_deletion_safe(data))
       => /\ data'.info_latest_update_id = data.info_latest_update_id
          /\ pending_log' = pending_log]_vars

\* The LogEntry rows i and j refer to the same object and carry an update id.
SameObjectUpdates(i, j) ==
    /\ log_entries[i].object_type = log_entries[j].object_type
    /\ ~IsNone(log_entries[i].object_update_id)
    /\ ~IsNone(log_entries[j].object_update_id)

\* A deletion of the object of the LogEntry row i is logged between the rows
\* i and j.
DeletedBetween(i, j) ==
    \E k \in i + 1 .. j - 1 :
        /\ log_entries[k].object_type = log_entries[i].object_type
        /\ log_entries[k].is_deleted

\* C40 as stated: of two LogEntry rows of the creditor that refer to the same
\* object, the one with the smaller object_update_id has the smaller
\* entry_id.
C40_UpdateIdsOrderedAsEntryIds ==
    \A i, j \in 1 .. Len(log_entries) :
        (/\ SameObjectUpdates(i, j)
         /\ Val(log_entries[i].object_update_id) < Val(log_entries[j].object_update_id))
        => log_entries[i].entry_id < log_entries[j].entry_id

\* C40: of two LogEntry rows of the creditor that refer to the same object,
\* with no deletion of that object logged between them, the one that was
\* added first has the smaller entry_id and the smaller object_update_id,
\* under any interleaving of the snapshot handler, the reconciliation pass,
\* the transfer procedures and the flush.
C40_UpdateIdsOrderedWithinALifetime ==
    \A i, j \in 1 .. Len(log_entries) :
        (i < j /\ SameObjectUpdates(i, j) /\ ~DeletedBetween(i, j))
        => /\ log_entries[i].entry_id < log_entries[j].entry_id
           /\ Val(log_entries[i].object_update_id)
                  < Val(log_entries[j].object_update_id)

\* The log holds the ledger updates 2 and 3 of the account, staged by the
\* snapshot handler and by a pass, and the updates 1 and 2 of the transfer,
\* staged by its initiation and its cancellation; the last flush has
\* committed while a transaction on the account was open.
C40_Witness ==
    /\ \E i, j \in 1 .. Len(log_entries) :
           /\ i < j
           /\ log_entries[i].object_type = OTH_ACCOUNT_LEDGER
           /\ log_entries[j].object_type = OTH_ACCOUNT_LEDGER
           /\ log_entries[i].object_update_id = Some(2)
           /\ log_entries[j].object_update_id = Some(3)
    /\ \E i, j \in 1 .. Len(log_entries) :
           /\ i < j
           /\ log_entries[i].object_type = OTH_TRANSFER
           /\ log_entries[j].object_type = OTH_TRANSFER
           /\ log_entries[i].object_update_id = Some(1)
           /\ log_entries[j].object_update_id = Some(2)
    /\ ret.op = "process_pending_log_entries"
    /\ ~IsNone(txn["w1"])

====
